---- MODULE Spec2Model ----
(***************************************************************************)
(* Model of the kmap K-line chart core: Chart (src/src/core/chart.ts),     *)
(* InteractionController (src/src/core/controller/interaction.ts), Pane    *)
(* (src/src/core/layout/pane.ts), getVisibleRange                          *)
(* (src/src/utils/kline/format.ts) and the host a Chart runs in (the       *)
(* container element, the animation-frame queue, the zoom listener of      *)
(* KLineChart.vue).                                                        *)
(*                                                                         *)
(* JavaScript numbers are modelled as exact rationals [n |-> , d |-> ]     *)
(* kept in lowest terms with d > 0, so that equal numbers are equal        *)
(* values.                                                                 *)
(***************************************************************************)
EXTENDS Integers, Sequences, FiniteSets, TLC

\* null: of a string, of an object, of an index, of a frame handle
NULL == "null"
NullRec == [null |-> TRUE]
NullIdx == -1
NoHandle == 0

----------------------------------------------------------------------------
(* Exact arithmetic on rationals.                                          *)

RECURSIVE GCD(_, _)
GCD(a, b) == IF b = 0 THEN a ELSE GCD(b, a % b)

IAbs(a) == IF a < 0 THEN -a ELSE a

Rat(n, d) ==
    LET s == IF d < 0 THEN -1 ELSE 1
        g == GCD(IAbs(n), IAbs(d))
    IN  [n |-> (s * n) \div g, d |-> (s * d) \div g]

RInt(i) == [n |-> i, d |-> 1]

RAdd(a, b) == Rat(a.n * b.d + b.n * a.d, a.d * b.d)
RSub(a, b) == Rat(a.n * b.d - b.n * a.d, a.d * b.d)
RMul(a, b) == Rat(a.n * b.n, a.d * b.d)
RDiv(a, b) == Rat(a.n * b.d, a.d * b.n)
RLt(a, b) == a.n * b.d < b.n * a.d
RLe(a, b) == a.n * b.d <= b.n * a.d
RMax(a, b) == IF RLt(a, b) THEN b ELSE a
RMin(a, b) == IF RLt(b, a) THEN b ELSE a
RAbs(a) == [n |-> IAbs(a.n), d |-> a.d]

(* Math.floor, Math.ceil and Math.round (round half up) as integers.       *)
MathFloor(a) == a.n \div a.d
MathCeil(a) == -((-a.n) \div a.d)
MathRound(a) == (2 * a.n + a.d) \div (2 * a.d)

----------------------------------------------------------------------------
(* getVisibleRange: the index window of one frame.                         *)

\* getVisibleRange taking the column width alone for the unit
getVisibleRange_NoGap(scrollLeft, viewWidth, kWidth, kGap, totalDataCount) ==
    LET start == IF MathFloor(RDiv(scrollLeft, kWidth)) - 1 < 0
                 THEN 0 ELSE MathFloor(RDiv(scrollLeft, kWidth)) - 1
        last == MathCeil(RDiv(RAdd(scrollLeft, viewWidth), kWidth)) + 1
        end == IF last < totalDataCount THEN last ELSE totalDataCount
    IN  [start |-> start, end |-> end]

getVisibleRange(scrollLeft, viewWidth, kWidth, kGap, totalDataCount) ==
    LET unit == RAdd(kWidth, kGap)
        start == IF MathFloor(RDiv(scrollLeft, unit)) - 1 < 0
                 THEN 0 ELSE MathFloor(RDiv(scrollLeft, unit)) - 1
        last == MathCeil(RDiv(RAdd(scrollLeft, viewWidth), unit)) + 1
        end == IF last < totalDataCount THEN last ELSE totalDataCount
    IN  [start |-> start, end |-> end]

----------------------------------------------------------------------------
(* Model configuration: the options handed to `new Chart(dom, opt)`, the   *)
(* container geometry and the inputs events carry.                         *)

MaxData == 8
MaxPanes == 2
MaxPending == 3
MaxZoomTasks == 2
BurstCap == 2
MaxZooms == 2
MaxScroll == 40
MaxGap == 2
MaxPlotHeight == 24


MAIN == "main"
SUB == "sub"

\* candles: [open, high, low, close]
Candle(o, h, l, c) == [open |-> o, high |-> h, low |-> l, close |-> c]
DataLong == [i \in 1..MaxData |->
                IF i % 2 = 1 THEN Candle(4, 9, 1, 7) ELSE Candle(6, 8, 2, 3)]
DataShort == SubSeq(DataLong, 1, 2)

\* renderer chains a caller installs (names stand for the renderer objects)
RendererLists == << <<"grid", "candle">>, <<"grid", "candle", "ma">> >>

\* array identities: those of the panes' own arrays, those of the callers' arrays
PaneRefs == 1..(2 * MaxPanes)
LitRefs == { 2 * MaxPanes + k : k \in 1..Len(RendererLists) }

Panes0 == <<[id |-> MAIN, ratio |-> Rat(3, 4)], [id |-> SUB, ratio |-> Rat(1, 4)]>>
Panes1 == <<[id |-> MAIN, ratio |-> Rat(1, 1)]>>

\* ChartOptions of the main specification (small geometry, dpr 1)
Opt0 ==
    [kWidth |-> RInt(3), kGap |-> RInt(1), yPaddingPx |-> 1,
     rightAxisWidth |-> 4, bottomAxisHeight |-> 2,
     minKWidth |-> RInt(2), maxKWidth |-> RInt(6),
     panes |-> Panes0, paneGap |-> 0, priceLabelWidth |-> 2]

\* the container element and the window
Dom0 ==
    [rectW |-> 30, rectH |-> 14, clientWidth |-> 30,
     scrollLeft |-> RInt(0), scrollWidth |-> RInt(30), dpr |-> RInt(1)]

----------------------------------------------------------------------------
(* State.  chart, ic and dom are the Chart, the InteractionController and  *)
(* the container element; rafQueue holds the frame callbacks the host has  *)
(* pending, zoomTasks the suspended zoom listeners, heap the contents of   *)
(* the panes' renderer arrays by array identity.  g records what the last  *)
(* operation did (which handler ran, how often draw() ran in it, ...).     *)

VARIABLES chart, ic, dom, rafQueue, scrollPending, zoomTasks, heap, g, pf

vars == <<chart, ic, dom, rafQueue, scrollPending, zoomTasks, heap, g, pf>>

State ==
    [chart |-> chart, ic |-> ic, dom |-> dom, rafQueue |-> rafQueue,
     scrollPending |-> scrollPending, zoomTasks |-> zoomTasks, heap |-> heap,
     g |-> g]

Becomes(s) ==
    /\ chart' = s.chart
    /\ ic' = s.ic
    /\ dom' = s.dom
    /\ rafQueue' = s.rafQueue
    /\ scrollPending' = s.scrollPending
    /\ zoomTasks' = s.zoomTasks
    /\ heap' = s.heap
    /\ g' = s.g
    /\ pf' = pf

\* what g says at the start of a handler; g.wasDragging and g.hadCrosshair
\* are the drag state and the presence of a crosshair the handler found; g.updates counts the handler's
\* updateData calls and g.fetched is the last data a fetch delivered; g.painted is
\* the crosshair a frame
\* painted; g.watch names what a specification observes across handlers: "burst"
\* counts the requests a frame serves, "event" keeps the handler's event, "tap"
\* keeps g.tap, which lives from a press to the next event that is neither the
\* release nor a frame
Begin(s, op) ==
    [s EXCEPT !.g = [op |-> op, draws |-> 0, threw |-> FALSE, requests |-> 0,
                     scrollWrites |-> 0, listenerCalls |-> <<>>,
                     served |-> 0, burst |-> s.g.burst,
                     destroyed |-> s.g.destroyed,
                     zoomed |-> FALSE, target |-> NullRec, anchor |-> NullRec,
                     zooms |-> s.g.zooms, pending |-> s.g.pending,
                     event |-> NullRec, painted |-> NullRec,
                     wasDragging |-> s.ic.isDragging,
                     updates |-> 0, fetched |-> s.g.fetched,
                     hadCrosshair |-> s.ic.crosshairPos # NullRec,
                     watch |-> s.g.watch, written |-> NullRec,
                     events |-> s.g.events,
                     tap |-> IF op \in {"frame", "onPointerUp", "onMouseUp"}
                             THEN s.g.tap ELSE NullRec]]

----------------------------------------------------------------------------
(* The host: animation frames and the scrollable container.                *)

\* the smallest handle the host has not pending
FreshHandle(s) ==
    CHOOSE h \in 1..(Cardinality(s.rafQueue) + 1) :
        /\ h \notin s.rafQueue
        /\ \A k \in 1..(h - 1) : k \in s.rafQueue

cancelAnimationFrame(s, h) == [s EXCEPT !.rafQueue = @ \ {h}]

maxScrollLeft(s) ==
    RMax(RInt(0), RSub(s.dom.scrollWidth, RInt(s.dom.clientWidth)))

\* element.scrollLeft = v: the host clamps into the scrollable range and
\* queues a scroll event when the offset moved
HostSetScrollLeft(s, v) ==
    LET c == RMin(RMax(RInt(0), v), maxScrollLeft(s))
    IN  [s EXCEPT !.dom.scrollLeft = c,
                  !.scrollPending = @ \/ (c # s.dom.scrollLeft)]

\* a write of container.scrollLeft by the program; g.written is the value the
\* program assigned, before the host clamps it
WriteScrollLeft(s, v) ==
    HostSetScrollLeft([s EXCEPT !.g.scrollWrites = @ + 1,
                                !.g.written = IF s.g.watch = "event" THEN v ELSE @], v)

----------------------------------------------------------------------------
(* Pane and PriceScale.                                                    *)

DefaultPriceRange == [maxPrice |-> 100, minPrice |-> 0]

NewPane(id, ref) ==
    [id |-> id, top |-> 0, height |-> 0, priceRange |-> DefaultPriceRange,
     yHeight |-> 1, padTop |-> 0, padBottom |-> 0, renderers |-> ref]

IMax(a, b) == IF a < b THEN b ELSE a
IMin(a, b) == IF b < a THEN b ELSE a

setLayout(pane, top, height) ==
    [pane EXCEPT !.top = top, !.height = IMax(1, height),
                 !.yHeight = IMax(1, IMax(1, height))]

setPadding(pane, top, bottom) ==
    [pane EXCEPT !.padTop = IMax(0, top), !.padBottom = IMax(0, bottom)]

\* acc.finite = FALSE stands for the -Infinity / Infinity the scan starts from
RECURSIVE PriceFold(_, _, _, _)
PriceFold(data, i, endIndex, acc) ==
    IF ~(i < endIndex /\ i < Len(data)) THEN acc
    ELSE LET e == data[i + 1]
             hi == IF ~acc.finite \/ e.high > acc.maxPrice
                   THEN e.high ELSE acc.maxPrice
             lo == IF ~acc.finite \/ e.low < acc.minPrice
                   THEN e.low ELSE acc.minPrice
         IN  PriceFold(data, i + 1, endIndex,
                       [maxPrice |-> hi, minPrice |-> lo, finite |-> TRUE])

\* getVisiblePriceRange without the fallback for a scan that found nothing
getVisiblePriceRange_NoDefault(data, startIndex, endIndex) ==
    LET r == PriceFold(data, startIndex, endIndex,
                       [maxPrice |-> 0, minPrice |-> 0, finite |-> FALSE])
    IN  [maxPrice |-> r.maxPrice, minPrice |-> r.minPrice]

getVisiblePriceRange(data, startIndex, endIndex) ==
    LET r == PriceFold(data, startIndex, endIndex,
                       [maxPrice |-> 0, minPrice |-> 0, finite |-> FALSE])
    IN  IF ~r.finite THEN DefaultPriceRange
        ELSE [maxPrice |-> r.maxPrice, minPrice |-> r.minPrice]

updateRange(pane, data, range) ==
    [pane EXCEPT !.priceRange = getVisiblePriceRange(data, range.start, range.end)]

priceToY(pane, price) ==
    LET range == IF pane.priceRange.maxPrice - pane.priceRange.minPrice = 0
                 THEN 1 ELSE pane.priceRange.maxPrice - pane.priceRange.minPrice
        ratio == Rat(price - pane.priceRange.minPrice, range)
        viewHeight == IMax(1, pane.yHeight - pane.padTop - pane.padBottom)
    IN  RAdd(RInt(pane.padTop), RMul(RInt(viewHeight), RSub(RInt(1), ratio)))

----------------------------------------------------------------------------
(* Chart.                                                                  *)

\* opt.priceLabelWidth || 60
PriceLabelWidth(opt) == IF opt.priceLabelWidth = 0 THEN 60 ELSE opt.priceLabelWidth

calcKWidthPx(kWidth, dpr) ==
    LET px == MathRound(RMul(kWidth, dpr))
    IN  IMax(1, IF px % 2 = 0 THEN px + 1 ELSE px)

\* what both aligned-candle functions return for a body in physical pixels
AlignedKLine(leftPx, widthPx, rectY, height, dpr) ==
    LET rightPx == leftPx + widthPx
        topPx == MathRound(RMul(rectY, dpr))
        bottomPx == MathRound(RMul(RAdd(rectY, height), dpr))
        heightPx == IMax(1, bottomPx - topPx)
        physWickX == RAdd(RInt(leftPx), Rat(widthPx - 1, 2))
    IN  [bodyRect |-> [x |-> RDiv(RInt(leftPx), dpr), y |-> RDiv(RInt(topPx), dpr),
                       width |-> RDiv(RInt(widthPx), dpr),
                       height |-> RDiv(RInt(heightPx), dpr)],
         physBodyLeft |-> leftPx, physBodyRight |-> rightPx,
         physBodyWidth |-> widthPx, physBodyCenter |-> physWickX,
         physWickX |-> physWickX,
         wickRect |-> [x |-> RDiv(physWickX, dpr), width |-> RDiv(RInt(1), dpr)],
         isPerfectlyAligned |-> (widthPx % 2 = 1)]

\* createAlignedKLine keeping an even rounded width
createAlignedKLine_KeepEven(rectX, rectY, kWidth, height, dpr) ==
    AlignedKLine(MathRound(RMul(rectX, dpr)), IMax(1, MathRound(RMul(kWidth, dpr))),
                 rectY, height, dpr)

createAlignedKLine(rectX, rectY, kWidth, height, dpr) ==
    LET leftPx == MathRound(RMul(rectX, dpr))
        rounded == MathRound(RMul(kWidth, dpr))
        widthPx == IMax(1, IF rounded % 2 = 0 THEN rounded + 1 ELSE rounded)
    IN  AlignedKLine(leftPx, widthPx, rectY, height, dpr)

createAlignedKLineFromPx(leftPx, rectY, widthPx, height, dpr) ==
    AlignedKLine(leftPx, widthPx, rectY, height, dpr)

\* CandleRenderer.draw: the aligned body of a candle whose logical left is leftLogical
CandleAligned(leftLogical, rectY, kWidth, height, dpr) ==
    createAlignedKLineFromPx(MathRound(RMul(leftLogical, dpr)), rectY,
                             calcKWidthPx(kWidth, dpr), height, dpr)

\* this.viewport?.dpr || window.devicePixelRatio || 1
ChartDpr(s) ==
    IF s.chart.viewport # NullRec /\ s.chart.viewport.dpr.n # 0 THEN s.chart.viewport.dpr
    ELSE IF s.dom.dpr.n # 0 THEN s.dom.dpr ELSE RInt(1)

\* window.devicePixelRatio || 1
WindowDpr(s) == IF s.dom.dpr.n # 0 THEN s.dom.dpr ELSE RInt(1)

\* the viewports here stay far below MAX_CANVAS_PIXELS, so dpr is never capped
computeViewport(s) ==
    LET viewWidth == IMax(1, s.dom.rectW)
        viewHeight == IMax(1, s.dom.rectH)
        yAxisTotalWidth == s.chart.opt.rightAxisWidth + PriceLabelWidth(s.chart.opt)
    IN  [s EXCEPT !.chart.viewport =
            [viewWidth |-> viewWidth, viewHeight |-> viewHeight,
             plotWidth |-> viewWidth - yAxisTotalWidth,
             plotHeight |-> viewHeight - s.chart.opt.bottomAxisHeight,
             scrollLeft |-> s.dom.scrollLeft, dpr |-> WindowDpr(s)]]

calcKLinePositions(s, range) ==
    LET unit == RAdd(s.chart.opt.kWidth, s.chart.opt.kGap)
        dpr == ChartDpr(s)
    IN  [i \in 1..(range.end - range.start) |->
            Rat(MathRound(RMul(RAdd(s.chart.opt.kGap,
                                    RMul(RInt(range.start + i - 1), unit)), dpr)) * dpr.d,
                dpr.n)]

setKLinePositions(s, positions, visibleRange) ==
    [s EXCEPT !.ic.kLinePositions = positions, !.ic.visibleRange = visibleRange]

\* a non-null array
Arr(seq) == [arr |-> seq]

\* PaneRenderer.draw of every pane: each pane's price range follows the slice
DrawPanes(s, range) ==
    [s EXCEPT !.chart.paneRenderers =
        [i \in 1..Len(s.chart.paneRenderers) |->
            updateRange(s.chart.paneRenderers[i], s.chart.data, range)]]

\* new Array(count) throws RangeError for a negative count: the frame is abandoned
draw(s) ==
    LET s1 == computeViewport([s EXCEPT !.g.draws = @ + 1])
        vp == s1.chart.viewport
        range == getVisibleRange(vp.scrollLeft, RInt(vp.plotWidth),
                                 s1.chart.opt.kWidth, s1.chart.opt.kGap,
                                 Len(s1.chart.data))
        isDragging == s1.ic.isDragging
        s2 == DrawPanes(setKLinePositions(s1, Arr(calcKLinePositions(s1, range)),
                                          range),
                        range)
    IN  IF range.end - range.start < 0
        THEN [s1 EXCEPT !.g.threw = TRUE]
        ELSE [s2 EXCEPT !.g.painted =
                            IF /\ ~isDragging /\ s2.ic.crosshairPos # NullRec
                               /\ s2.chart.paneRenderers # <<>>
                            THEN s2.ic.crosshairPos ELSE NullRec]

\* scheduleDraw without the cancelAnimationFrame of the pending handle
scheduleDraw_NoCancel(s) ==
    LET h == FreshHandle(s)
    IN  [s EXCEPT !.rafQueue = @ \cup {h}, !.chart.raf = h,
                  !.g.requests = @ + 1,
                  !.g.burst = IF s.g.watch = "burst" THEN IMin(BurstCap, @ + 1) ELSE @]

scheduleDraw(s) ==
    LET s1 == IF s.chart.raf # NoHandle THEN cancelAnimationFrame(s, s.chart.raf) ELSE s
        h == FreshHandle(s1)
    IN  [s1 EXCEPT !.rafQueue = @ \cup {h}, !.chart.raf = h,
                   !.g.requests = @ + 1,
                   !.g.burst = IF s.g.watch = "burst" THEN IMin(BurstCap, @ + 1) ELSE @]

\* a frame callback that requests the next frame, as an animation loop does
FrameCallback_Loop(s) == scheduleDraw(draw([s EXCEPT !.chart.raf = NoHandle]))

\* the callback scheduleDraw hands to requestAnimationFrame
FrameCallback(s) == draw([s EXCEPT !.chart.raf = NoHandle])

RECURSIVE SumRatios(_, _)
SumRatios(panes, i) ==
    IF i > Len(panes) THEN RInt(0) ELSE RAdd(panes[i].ratio, SumRatios(panes, i + 1))

\* the loop of layoutPanes: the <<y, h>> handed to pane.setLayout for panes i..n
RECURSIVE LayoutLoop(_, _, _, _, _, _, _)
LayoutLoop(panes, totalRatio, gap, availableH, n, i, y) ==
    IF i > n THEN <<>>
    ELSE LET h == IF i = n THEN availableH - y
                  ELSE MathRound(RMul(RInt(availableH),
                                      RDiv(panes[i].ratio, totalRatio)))
         IN  <<[top |-> y, h |-> h]>> \o
             LayoutLoop(panes, totalRatio, gap, availableH, n, i + 1, y + h + gap)

\* the <<y, h>> of every pane for a plot height
PaneLayout(panes, nRenderers, paneGap, plotHeight) ==
    LET sum == SumRatios(panes, 1)
        totalRatio == IF sum.n = 0 THEN RInt(1) ELSE sum
        gap == IMax(0, paneGap)
        n == IMin(nRenderers, Len(panes))
        totalGaps == gap * IMax(0, n - 1)
        availableH == IMax(1, plotHeight - totalGaps)
    IN  LayoutLoop(panes, totalRatio, gap, availableH, n, 1, 0)

layoutPanes(s) ==
    IF s.chart.viewport = NullRec THEN s
    ELSE LET lay == PaneLayout(s.chart.opt.panes, Len(s.chart.paneRenderers),
                               s.chart.opt.paneGap, s.chart.viewport.plotHeight)
         IN  [s EXCEPT !.chart.paneRenderers =
                [i \in 1..Len(s.chart.paneRenderers) |->
                    IF i > Len(lay) THEN s.chart.paneRenderers[i]
                    ELSE LET pane == setLayout(s.chart.paneRenderers[i],
                                               lay[i].top, lay[i].h)
                         IN  IF pane.id = SUB THEN setPadding(pane, 0, 0)
                             ELSE setPadding(pane, s.chart.opt.yPaddingPx,
                                             s.chart.opt.yPaddingPx)]]

resize(s) == scheduleDraw(layoutPanes(computeViewport(s)))

\* array identities not used by the current panes
FreshRefs(s, k) ==
    LET used == { s.chart.paneRenderers[i].renderers : i \in 1..Len(s.chart.paneRenderers) }
        base == IF 1 \in used THEN MaxPanes ELSE 0
    IN  [i \in 1..k |-> base + i]

initPanes(s) ==
    LET refs == FreshRefs(s, Len(s.chart.opt.panes))
    IN  [s EXCEPT !.chart.paneRenderers =
                      [i \in 1..Len(s.chart.opt.panes) |->
                          NewPane(s.chart.opt.panes[i].id, refs[i])],
                  !.heap = [r \in DOMAIN s.heap |->
                               IF \E i \in 1..Len(refs) : refs[i] = r
                               THEN <<>> ELSE s.heap[r]]]

\* partial is a record holding some of the options
updateOptions(s, partial) ==
    LET opt == [k \in DOMAIN s.chart.opt |->
                   IF k \in DOMAIN partial THEN partial[k] ELSE s.chart.opt[k]]
        s1 == [s EXCEPT !.chart.opt = opt]
    IN  resize(IF "panes" \in DOMAIN partial THEN initPanes(s1) ELSE s1)

updateData(s, data) == scheduleDraw([s EXCEPT !.chart.data = data, !.g.updates = @ + 1])

getContentWidth(s) ==
    LET n == Len(s.chart.data)
        plotWidth == RAdd(s.chart.opt.kGap,
                          RMul(RInt(n), RAdd(s.chart.opt.kWidth, s.chart.opt.kGap)))
    IN  RAdd(plotWidth, RInt(s.chart.opt.rightAxisWidth + PriceLabelWidth(s.chart.opt)))

PaneIndex(s, paneId) ==
    IF \E i \in 1..Len(s.chart.paneRenderers) : s.chart.paneRenderers[i].id = paneId
    THEN CHOOSE i \in 1..Len(s.chart.paneRenderers) :
            /\ s.chart.paneRenderers[i].id = paneId
            /\ \A j \in 1..(i - 1) : s.chart.paneRenderers[j].id # paneId
    ELSE 0

\* setPaneRenderers without `pane.renderers.length = 0`
setPaneRenderers_NoClear(s, paneId, renderers) ==
    LET i == PaneIndex(s, paneId)
    IN  IF i = 0 THEN s
        ELSE LET ref == s.chart.paneRenderers[i].renderers
             IN  scheduleDraw([s EXCEPT !.heap[ref] = @ \o s.heap[renderers]])

\* renderers is the identity of the array the caller passes; the pane's array
\* is emptied (length = 0) and then filled from what the argument then holds
setPaneRenderers(s, paneId, renderers) ==
    LET i == PaneIndex(s, paneId)
    IN  IF i = 0 THEN s
        ELSE LET ref == s.chart.paneRenderers[i].renderers
                 cleared == [s.heap EXCEPT ![ref] = <<>>]
             IN  scheduleDraw([s EXCEPT !.heap =
                                  [cleared EXCEPT ![ref] = cleared[renderers]]])

setOnZoomChange(s) == [s EXCEPT !.chart.onZoomChange = TRUE]

destroy(s) ==
    LET s1 == IF s.chart.raf # NoHandle THEN cancelAnimationFrame(s, s.chart.raf) ELSE s
    IN  [s1 EXCEPT !.chart.raf = NoHandle, !.chart.viewport = NullRec,
                   !.chart.paneRenderers = <<>>, !.chart.onZoomChange = FALSE,
                   !.g.destroyed = TRUE]

PHYS_K_GAP == 3

\* the synchronous part of the listener KLineChart.vue registers: it keeps its
\* arguments and suspends (await nextTick, await a frame)
onZoomChange(s, kWidth, kGap, targetScrollLeft) ==
    LET call == [kWidth |-> kWidth, kGap |-> kGap,
                 targetScrollLeft |-> targetScrollLeft]
    IN  [s EXCEPT !.zoomTasks = Append(@, call),
                  !.g.listenerCalls = Append(@, call)]

\* step 2-4 of zoomAt: the clamped new kWidth for a wheel direction
ZoomNewKWidth(opt, dpr, deltaY) ==
    LET physKWidth == MathRound(RMul(opt.kWidth, dpr))
        delta == IF deltaY > 0 THEN -2 ELSE 2
        stepped == physKWidth + delta
        newPhysKWidth == IF stepped % 2 = 0
                         THEN stepped + (IF delta > 0 THEN 1 ELSE -1) ELSE stepped
    IN  RMax(opt.minKWidth, RMin(opt.maxKWidth, RDiv(RInt(newPhysKWidth), dpr)))

\* zoomAt without the early return of step 4
zoomAt_NoReturn(s, mouseX, scrollLeft, deltaY) ==
    LET opt == s.chart.opt
        centerIndex == RDiv(RAdd(scrollLeft, mouseX), RAdd(opt.kWidth, opt.kGap))
        newKWidth == ZoomNewKWidth(opt, ChartDpr(s), deltaY)
        newKGap == RDiv(RInt(PHYS_K_GAP), ChartDpr(s))
        newScrollLeft == RSub(RMul(centerIndex, RAdd(newKWidth, newKGap)), mouseX)
        s1 == [s EXCEPT !.chart.opt.kWidth = newKWidth, !.chart.opt.kGap = newKGap,
                        !.g.zoomed = TRUE, !.g.target = newScrollLeft]
    IN  IF s.chart.onZoomChange
        THEN onZoomChange(s1, newKWidth, newKGap, newScrollLeft)
        ELSE scheduleDraw(WriteScrollLeft(s1,
                 RMin(RMax(RInt(0), newScrollLeft), maxScrollLeft(s1))))

\* zoomAt keeping the offset it was given instead of re-centring on mouseX
zoomAt_KeepOffset(s, mouseX, scrollLeft, deltaY) ==
    LET opt == s.chart.opt
        newKWidth == ZoomNewKWidth(opt, ChartDpr(s), deltaY)
        newKGap == RDiv(RInt(PHYS_K_GAP), ChartDpr(s))
        s1 == [s EXCEPT !.chart.opt.kWidth = newKWidth, !.chart.opt.kGap = newKGap,
                        !.g.zoomed = TRUE, !.g.target = scrollLeft]
    IN  IF RLt(RAbs(RSub(newKWidth, opt.kWidth)), Rat(1, 100)) THEN s
        ELSE IF s.chart.onZoomChange
             THEN onZoomChange(s1, newKWidth, newKGap, scrollLeft)
             ELSE scheduleDraw(WriteScrollLeft(s1,
                      RMin(RMax(RInt(0), scrollLeft), maxScrollLeft(s1))))

\* zoomAt writing the offset itself before it tells the listener
zoomAt_WriteThenNotify(s, mouseX, scrollLeft, deltaY) ==
    LET opt == s.chart.opt
        centerIndex == RDiv(RAdd(scrollLeft, mouseX), RAdd(opt.kWidth, opt.kGap))
        newKWidth == ZoomNewKWidth(opt, ChartDpr(s), deltaY)
        newKGap == RDiv(RInt(PHYS_K_GAP), ChartDpr(s))
        newScrollLeft == RSub(RMul(centerIndex, RAdd(newKWidth, newKGap)), mouseX)
        s1 == [s EXCEPT !.chart.opt.kWidth = newKWidth, !.chart.opt.kGap = newKGap,
                        !.g.zoomed = TRUE, !.g.target = newScrollLeft]
        s2 == WriteScrollLeft(s1, RMin(RMax(RInt(0), newScrollLeft), maxScrollLeft(s1)))
    IN  IF RLt(RAbs(RSub(newKWidth, opt.kWidth)), Rat(1, 100)) THEN s
        ELSE IF s.chart.onZoomChange
             THEN onZoomChange(s2, newKWidth, newKGap, newScrollLeft)
             ELSE scheduleDraw(s2)

zoomAt(s, mouseX, scrollLeft, deltaY) ==
    LET opt == s.chart.opt
        oldUnit == RAdd(opt.kWidth, opt.kGap)
        centerIndex == RDiv(RAdd(scrollLeft, mouseX), oldUnit)
        dpr == ChartDpr(s)
        newKWidth == ZoomNewKWidth(opt, dpr, deltaY)
        newKGap == RDiv(RInt(PHYS_K_GAP), dpr)
        newUnit == RAdd(newKWidth, newKGap)
        newScrollLeft == RSub(RMul(centerIndex, newUnit), mouseX)
        s1 == [s EXCEPT !.chart.opt.kWidth = newKWidth, !.chart.opt.kGap = newKGap,
                        !.g.zoomed = TRUE, !.g.target = newScrollLeft]
    IN  IF RLt(RAbs(RSub(newKWidth, opt.kWidth)), Rat(1, 100)) THEN s
        ELSE IF s.chart.onZoomChange
             THEN onZoomChange(s1, newKWidth, newKGap, newScrollLeft)
             ELSE scheduleDraw(WriteScrollLeft(s1,
                      RMin(RMax(RInt(0), newScrollLeft), maxScrollLeft(s1))))

----------------------------------------------------------------------------
(* InteractionController.                                                  *)

clearHover(s) ==
    [s EXCEPT !.ic.crosshairPos = NullRec, !.ic.crosshairIndex = NullIdx,
              !.ic.hoveredIndex = NullIdx, !.ic.activePaneId = NULL]

\* the container's bounding rect starts at the client origin
RectLeft == 0
RectTop == 0

MIN_BODY_HIT_HEIGHT == 8
HIT_WICK_HALF_EXTENDED == 3
TooltipPadding == 12
TooltipPreferGap == 14

\* index of the first pane whose band holds mouseY, 0 when none does
FindPane(s, mouseY) ==
    LET hit(i) == /\ mouseY >= s.chart.paneRenderers[i].top
                  /\ mouseY <= s.chart.paneRenderers[i].top
                                + s.chart.paneRenderers[i].height
    IN  IF \E i \in 1..Len(s.chart.paneRenderers) : hit(i)
        THEN CHOOSE i \in 1..Len(s.chart.paneRenderers) :
                hit(i) /\ \A j \in 1..(i - 1) : ~hit(j)
        ELSE 0

\* step 6.4 of updateHoverFromPoint always placing the tooltip right of the cursor
TooltipPos_NoFlip(mouseX, mouseY, viewWidth, viewHeight, tooltipSize) ==
    LET desiredX == mouseX + TooltipPreferGap
        desiredY == mouseY + TooltipPreferGap
        maxX == IMax(TooltipPadding, viewWidth - tooltipSize.width - TooltipPadding)
        maxY == IMax(TooltipPadding, viewHeight - tooltipSize.height - TooltipPadding)
    IN  [x |-> IMin(IMax(desiredX, TooltipPadding), maxX),
         y |-> IMin(IMax(desiredY, TooltipPadding), maxY)]

\* step 6.4 of updateHoverFromPoint: the tooltip position for a cursor
TooltipPos(mouseX, mouseY, viewWidth, viewHeight, tooltipSize) ==
    LET tooltipW == tooltipSize.width
        tooltipH == tooltipSize.height
        rightX == mouseX + TooltipPreferGap
        leftX == mouseX - TooltipPreferGap - tooltipW
        desiredX == IF rightX + tooltipW + TooltipPadding <= viewWidth
                    THEN rightX ELSE leftX
        desiredY == mouseY + TooltipPreferGap
        maxX == IMax(TooltipPadding, viewWidth - tooltipW - TooltipPadding)
        maxY == IMax(TooltipPadding, viewHeight - tooltipH - TooltipPadding)
    IN  [x |-> IMin(IMax(desiredX, TooltipPadding), maxX),
         y |-> IMin(IMax(desiredY, TooltipPadding), maxY)]

setTooltipSize(s, size) == [s EXCEPT !.ic.tooltipSize = size]

\* step 6 of updateHoverFromPoint: the candle hit test and the tooltip
HoverHit(s, mouseX, mouseY, viewWidth, viewHeight, idx, paneIdx) ==
    LET opt == s.chart.opt
        data == s.chart.data
        ci == s.ic.crosshairIndex
        hasK == ci # NullIdx /\ ci >= 0 /\ ci < Len(data)
    IN  IF ~hasK \/ paneIdx = 0 THEN [s EXCEPT !.ic.hoveredIndex = NullIdx]
        ELSE IF s.chart.paneRenderers[paneIdx].id # MAIN
        THEN [s EXCEPT !.ic.hoveredIndex = NullIdx]
        ELSE
        LET pane == s.chart.paneRenderers[paneIdx]
            k == data[ci + 1]
            unit == RAdd(opt.kWidth, opt.kGap)
            worldX == RAdd(s.dom.scrollLeft, RInt(mouseX))
            localY == RInt(mouseY - pane.top)
            openY == priceToY(pane, k.open)
            closeY == priceToY(pane, k.close)
            highY == priceToY(pane, k.high)
            lowY == priceToY(pane, k.low)
            bodyTop == RMin(openY, closeY)
            bodyBottom == RMax(openY, closeY)
            kLineStartX == RAdd(opt.kGap, RMul(RInt(idx), unit))
            inUnitX == RSub(worldX, kLineStartX)
            cxLogical == RDiv(opt.kWidth, RInt(2))
            bodyHeight == RAbs(RSub(bodyBottom, bodyTop))
            small == RLt(bodyHeight, RInt(MIN_BODY_HIT_HEIGHT))
            mid == RDiv(RAdd(bodyTop, bodyBottom), RInt(2))
            effectiveBodyTop ==
                IF small THEN RSub(mid, Rat(MIN_BODY_HIT_HEIGHT, 2)) ELSE bodyTop
            effectiveBodyBottom ==
                IF small THEN RAdd(mid, Rat(MIN_BODY_HIT_HEIGHT, 2)) ELSE bodyBottom
            hitBody == /\ RLe(effectiveBodyTop, localY)
                       /\ RLe(localY, effectiveBodyBottom)
                       /\ RLe(RInt(0), inUnitX)
                       /\ RLe(inUnitX, opt.kWidth)
            hitWick == /\ RLe(RAbs(RSub(inUnitX, cxLogical)),
                              RInt(HIT_WICK_HALF_EXTENDED))
                       /\ RLe(highY, localY)
                       /\ RLe(localY, lowY)
        IN  IF ~hitBody /\ ~hitWick THEN [s EXCEPT !.ic.hoveredIndex = NullIdx]
            ELSE [s EXCEPT !.ic.hoveredIndex = ci,
                           !.ic.tooltipPos = TooltipPos(mouseX, mouseY, viewWidth,
                                                        viewHeight, s.ic.tooltipSize)]

updateHoverFromPoint(s, clientX, clientY) ==
    LET mouseX == clientX - RectLeft
        mouseY == clientY - RectTop
        opt == s.chart.opt
        viewWidth == IMax(1, s.dom.rectW)
        viewHeight == IMax(1, s.dom.rectH)
        plotWidth == viewWidth - opt.rightAxisWidth - PriceLabelWidth(opt)
        plotHeight == viewHeight - opt.bottomAxisHeight
        scrollLeft == s.dom.scrollLeft
        dpr == WindowDpr(s)
        unit == RAdd(opt.kWidth, opt.kGap)
        startX == opt.kGap
        worldX == RAdd(scrollLeft, RInt(mouseX))
        offset == RSub(worldX, startX)
        idx == MathFloor(RDiv(offset, unit))
        paneIdx == FindPane(s, mouseY)
        kWidthPx == calcKWidthPx(opt.kWidth, ChartDpr(s))
        half == RDiv(Rat(kWidthPx - 1, 2), dpr)
        cached == /\ s.ic.kLinePositions # NullRec
                  /\ s.ic.visibleRange # NullRec
                  /\ idx >= s.ic.visibleRange.start
                  /\ idx < s.ic.visibleRange.end
        alignedLeft ==
            LET leftLogical == RAdd(startX, RMul(RInt(idx), unit))
            IN  Rat(MathRound(RMul(leftLogical, dpr)) * dpr.d, dpr.n)
        snappedX ==
            IF cached
            THEN RSub(RAdd(s.ic.kLinePositions.arr[idx - s.ic.visibleRange.start + 1],
                           half), scrollLeft)
            ELSE RSub(RAdd(alignedLeft, half), scrollLeft)
        clampX(x) == RMin(RMax(x, RInt(0)), RInt(plotWidth))
        y == RMin(RMax(RInt(mouseY), RInt(0)), RInt(plotHeight))
        s1 == [s EXCEPT !.ic.activePaneId =
                  IF paneIdx = 0 THEN NULL ELSE s.chart.paneRenderers[paneIdx].id]
        s2 == IF idx >= 0 /\ idx < Len(s.chart.data)
              THEN [s1 EXCEPT !.ic.crosshairIndex = idx,
                              !.ic.crosshairPos = [x |-> clampX(snappedX), y |-> y]]
              ELSE [s1 EXCEPT !.ic.crosshairIndex = NullIdx,
                              !.ic.crosshairPos = [x |-> clampX(RInt(mouseX)), y |-> y]]
    IN  IF mouseX < 0 \/ mouseY < 0 \/ mouseX > plotWidth \/ mouseY > plotHeight
        THEN clearHover(s)
        ELSE IF RLt(offset, RInt(0)) THEN clearHover(s)
        ELSE HoverHit(s2, mouseX, mouseY, viewWidth, viewHeight, idx, paneIdx)

\* e is [isPrimary, pointerType, clientX, clientY]
onPointerDown(s, e) ==
    IF ~e.isPrimary THEN s
    ELSE LET s1 == [s EXCEPT !.ic.isTouchSession = (e.pointerType = "touch"),
                             !.ic.isDragging = TRUE]
             s2 == updateHoverFromPoint(s1, e.clientX, e.clientY)
         IN  scheduleDraw([s2 EXCEPT !.ic.dragStartX = e.clientX,
                                     !.ic.scrollStartX = s2.dom.scrollLeft])

onPointerMove(s, e) ==
    IF ~e.isPrimary THEN s
    ELSE IF s.ic.isDragging
    THEN LET deltaX == s.ic.dragStartX - e.clientX
             s1 == WriteScrollLeft(s, RAdd(s.ic.scrollStartX, RInt(deltaX)))
         IN  scheduleDraw(updateHoverFromPoint(s1, e.clientX, e.clientY))
    ELSE scheduleDraw(updateHoverFromPoint(s, e.clientX, e.clientY))

\* onPointerUp that also ends the touch session
onPointerUp_EndSession(s, e) ==
    IF ~e.isPrimary THEN s
    ELSE [s EXCEPT !.ic.isDragging = FALSE, !.ic.isTouchSession = FALSE]

onPointerUp(s, e) ==
    IF ~e.isPrimary THEN s ELSE [s EXCEPT !.ic.isDragging = FALSE]

onPointerLeave(s, e) ==
    IF ~e.isPrimary THEN s
    ELSE scheduleDraw(clearHover([s EXCEPT !.ic.isDragging = FALSE,
                                           !.ic.isTouchSession = FALSE]))

\* onMouseDown that clears the hover state instead of pointing it at the press
onMouseDown_ClearHover(s, e) ==
    IF s.ic.isTouchSession THEN s
    ELSE IF e.button # 0 THEN s
    ELSE scheduleDraw(clearHover([s EXCEPT !.ic.isDragging = TRUE,
                                           !.ic.dragStartX = e.clientX,
                                           !.ic.scrollStartX = s.dom.scrollLeft]))

\* e is [button, clientX, clientY]
onMouseDown(s, e) ==
    IF s.ic.isTouchSession THEN s
    ELSE IF e.button # 0 THEN s
    ELSE LET s1 == [s EXCEPT !.ic.isDragging = TRUE,
                             !.ic.dragStartX = e.clientX,
                             !.ic.scrollStartX = s.dom.scrollLeft]
         IN  scheduleDraw(updateHoverFromPoint(s1, e.clientX, e.clientY))

\* onMouseMove adding the cursor delta to the offset the container has now
onMouseMove_FromCurrent(s, e) ==
    IF s.ic.isTouchSession THEN s
    ELSE IF s.ic.isDragging
    THEN WriteScrollLeft(s, RAdd(s.dom.scrollLeft, RInt(s.ic.dragStartX - e.clientX)))
    ELSE scheduleDraw(updateHoverFromPoint(s, e.clientX, e.clientY))

\* onMouseMove without the touch-session test
onMouseMove_NoTouchGuard(s, e) ==
    IF s.ic.isDragging
    THEN WriteScrollLeft(s, RAdd(s.ic.scrollStartX,
                                 RInt(s.ic.dragStartX - e.clientX)))
    ELSE scheduleDraw(updateHoverFromPoint(s, e.clientX, e.clientY))

onMouseMove(s, e) ==
    IF s.ic.isTouchSession THEN s
    ELSE IF s.ic.isDragging
    THEN WriteScrollLeft(s, RAdd(s.ic.scrollStartX,
                                 RInt(s.ic.dragStartX - e.clientX)))
    ELSE scheduleDraw(updateHoverFromPoint(s, e.clientX, e.clientY))

\* onMouseUp that leaves the drag state as it is
onMouseUp_KeepDrag(s) == s

onMouseUp(s) ==
    IF s.ic.isTouchSession THEN s ELSE [s EXCEPT !.ic.isDragging = FALSE]

\* onMouseLeave without clearHover
onMouseLeave_KeepHover(s) ==
    IF s.ic.isTouchSession THEN s
    ELSE scheduleDraw([s EXCEPT !.ic.isDragging = FALSE])

onMouseLeave(s) ==
    IF s.ic.isTouchSession THEN s
    ELSE scheduleDraw(clearHover([s EXCEPT !.ic.isDragging = FALSE]))

onScroll(s) ==
    scheduleDraw(clearHover([s EXCEPT !.ic.kLinePositions = NullRec,
                                      !.ic.visibleRange = NullRec]))

\* step 2-3 of updateHoverFromPoint: the data index under a container x
IndexUnder(s, mouseX) ==
    LET unit == RAdd(s.chart.opt.kWidth, s.chart.opt.kGap)
        worldX == RAdd(s.dom.scrollLeft, mouseX)
        offset == RSub(worldX, s.chart.opt.kGap)
    IN  MathFloor(RDiv(offset, unit))

\* e is [clientX, deltaY]
onWheel(s, e) ==
    zoomAt(clearHover(s), RInt(e.clientX - RectLeft), s.dom.scrollLeft, e.deltaY)

----------------------------------------------------------------------------
(* The host's own steps.                                                   *)

\* the width KLineChart.vue gives the scroll content
totalWidth(s) ==
    LET n == Len(s.chart.data)
        plotWidth == RAdd(s.chart.opt.kGap,
                          RMul(RInt(n), RAdd(s.chart.opt.kWidth, s.chart.opt.kGap)))
    IN  RAdd(plotWidth, RInt(s.chart.opt.rightAxisWidth))

\* the scroll content follows that width; the offset is clamped
HostLayoutStep(s) ==
    LET w == RMax(RInt(s.dom.clientWidth), totalWidth(s))
    IN  HostSetScrollLeft([s EXCEPT !.dom.scrollWidth = w], s.dom.scrollLeft)

\* the rest of the zoom listener of KLineChart.vue, after its two awaits
ZoomListenerRest(s) ==
    LET s1 == HostLayoutStep(s)
        target == Head(s1.zoomTasks).targetScrollLeft
        s2 == [s1 EXCEPT !.zoomTasks = Tail(@)]
    IN  scheduleDraw(WriteScrollLeft(s2,
            RMin(RMax(RInt(0), target), maxScrollLeft(s2))))

----------------------------------------------------------------------------
(* Inputs.                                                                 *)

XS == {3, 14}
YS == {4, 10, 13}
PointerEvents ==
    [isPrimary : BOOLEAN, pointerType : {"touch", "mouse"}, clientX : XS, clientY : YS]
MouseEvents == [button : {0, 2}, clientX : XS, clientY : YS]
WheelEvents == [clientX : XS, deltaY : {-100, 100}]
PartialOptions ==
    {[kWidth |-> Opt0.kWidth, kGap |-> Opt0.kGap], [panes |-> Panes1], [panes |-> Panes0]}
PaneIds == {MAIN, SUB, "none"}

----------------------------------------------------------------------------
(* Initial state: right after `new Chart(dom, opt)`.                       *)

G0 ==
    [op |-> "new", draws |-> 0, threw |-> FALSE, requests |-> 0, scrollWrites |-> 0,
     listenerCalls |-> <<>>, served |-> 0, burst |-> 0, destroyed |-> FALSE,
     zoomed |-> FALSE, target |-> NullRec, anchor |-> NullRec, zooms |-> 0,
     pending |-> <<>>, event |-> NullRec, painted |-> NullRec, wasDragging |-> FALSE, updates |-> 0, fetched |-> NullRec,
     hadCrosshair |-> FALSE,
     watch |-> "burst", written |-> NullRec, events |-> 0,
     tap |-> NullRec]

Ic0 ==
    [isDragging |-> FALSE, dragStartX |-> 0, scrollStartX |-> RInt(0),
     isTouchSession |-> FALSE, crosshairPos |-> NullRec, crosshairIndex |-> NullIdx,
     hoveredIndex |-> NullIdx, activePaneId |-> NULL,
     tooltipPos |-> [x |-> 0, y |-> 0],
     tooltipSize |-> [width |-> 220, height |-> 180],
     kLinePositions |-> NullRec, visibleRange |-> NullRec]

Heap0 ==
    [r \in PaneRefs \cup LitRefs |->
        IF r \in LitRefs THEN RendererLists[r - 2 * MaxPanes] ELSE <<>>]

NewChart(opt, domEl) ==
    initPanes([chart |-> [data |-> <<>>, raf |-> NoHandle, viewport |-> NullRec,
                          opt |-> opt, paneRenderers |-> <<>>,
                          onZoomChange |-> FALSE],
               ic |-> Ic0, dom |-> domEl, rafQueue |-> {}, scrollPending |-> FALSE,
               zoomTasks |-> <<>>, heap |-> Heap0, g |-> G0])

InitWith(s) ==
    /\ chart = s.chart
    /\ ic = s.ic
    /\ dom = s.dom
    /\ rafQueue = s.rafQueue
    /\ scrollPending = s.scrollPending
    /\ zoomTasks = s.zoomTasks
    /\ heap = s.heap
    /\ g = s.g

Init == InitWith(NewChart(Opt0, Dom0)) /\ pf = NullRec

----------------------------------------------------------------------------
(* Actions: one per API call, event handler or host step.  An action takes  *)
(* the set its inputs are drawn from.                                      *)

CanRequest == Cardinality(rafQueue) < MaxPending

\* the handler's state at entry, with the event in g.event
Enter(op, e) ==
    [Begin(State, op) EXCEPT !.g.event = IF g.watch = "event" THEN e ELSE NullRec]

ScheduleDraw == Becomes(scheduleDraw(Begin(State, "scheduleDraw")))

UpdateData(D) == \E d \in D : Becomes(updateData(Begin(State, "updateData"), d))

Resize == Becomes(resize(Begin(State, "resize")))

UpdateOptions(P) ==
    \E partial \in P : Becomes(updateOptions(Begin(State, "updateOptions"), partial))

\* the caller passes one of its own arrays or the array a pane holds
SetPaneRenderers(Ids) ==
    \E paneId \in Ids, r \in LitRefs \cup
            { chart.paneRenderers[i].renderers : i \in 1..Len(chart.paneRenderers) } :
        Becomes(setPaneRenderers(Enter("setPaneRenderers",
                                       [paneId |-> paneId, renderers |-> r]),
                                 paneId, r))

SetOnZoomChange == Becomes(setOnZoomChange(Begin(State, "setOnZoomChange")))

Destroy == Becomes(destroy(Begin(State, "destroy")))

\* the host runs one pending frame callback
FrameFire ==
    \E h \in rafQueue :
        LET s == Begin(State, "frame")
            s1 == FrameCallback([s EXCEPT !.rafQueue = @ \ {h},
                                          !.g.served = s.g.burst,
                                          !.g.burst = 0])
        IN  Becomes(IF s1.g.tap # NullRec /\ ~s1.g.threw
                    THEN [s1 EXCEPT !.g.tap.shown = s1.g.painted] ELSE s1)

\* g.tap: the point of a press that took effect, whether it was released, and
\* the crosshair the latest frame since the press left on the canvas
Press(s, e, effective) ==
    IF s.g.watch = "tap" /\ effective /\ s.ic.isDragging
    THEN [s EXCEPT !.g.tap = [x |-> e.clientX, y |-> e.clientY, up |-> FALSE,
                              shown |-> NullRec]]
    ELSE s

Release(s) ==
    IF s.g.tap # NullRec /\ ~s.ic.isDragging THEN [s EXCEPT !.g.tap.up = TRUE] ELSE s

PointerDown(E) ==
    \E e \in E : Becomes(Press(onPointerDown(Enter("onPointerDown", e), e), e,
                               e.isPrimary))
PointerMove(E) == \E e \in E : Becomes(onPointerMove(Enter("onPointerMove", e), e))
PointerUp(E) == \E e \in E : Becomes(Release(onPointerUp(Enter("onPointerUp", e), e)))
PointerLeave(E) == \E e \in E : Becomes(onPointerLeave(Enter("onPointerLeave", e), e))
MouseDown(E) ==
    \E e \in E : Becomes(Press(onMouseDown(Enter("onMouseDown", e), e), e,
                               ~ic.isTouchSession /\ e.button = 0))
MouseMove(E) == \E e \in E : Becomes(onMouseMove(Enter("onMouseMove", e), e))
MouseUp == Becomes(Release(onMouseUp(Begin(State, "onMouseUp"))))
MouseLeave == Becomes(onMouseLeave(Begin(State, "onMouseLeave")))

\* the host delivers the scroll event a moved offset queued
Scroll ==
    /\ scrollPending
    /\ Becomes(onScroll([Begin(State, "onScroll") EXCEPT !.scrollPending = FALSE]))

\* g.anchor: the index under the wheel's x before a zoom and once the zoom's
\* scroll offset is in place; clamped: the offset is not the zoom's target;
\* stale: a later zoom changed the column size before the offset was applied;
\* chained: the wheel arrived while an earlier zoom's offset was not yet
\* applied; origin: the index that was under the wheel's x when the first wheel
\* of such a sequence arrived (kept while the wheels stay at one x)
Anchor(s, rec) ==
    [mouseX |-> rec.mouseX, before |-> rec.before,
     after |-> IndexUnder(s, RInt(rec.mouseX)),
     clamped |-> s.dom.scrollLeft # rec.target,
     stale |-> s.chart.opt.kWidth # rec.kWidth \/ s.chart.opt.kGap # rec.kGap,
     chained |-> rec.chained, origin |-> rec.origin]

NoteZoom(s0, s, e) ==
    LET before == IndexUnder(s0, RInt(e.clientX - RectLeft))
        rapid == s0.g.watch = "rapid"
        prior == s0.g.pending
        rec == [mouseX |-> e.clientX - RectLeft,
                before |-> before,
                kWidth |-> s.chart.opt.kWidth, kGap |-> s.chart.opt.kGap,
                target |-> s.g.target,
                chained |-> rapid /\ prior # <<>>,
                origin |-> IF ~rapid THEN NullIdx
                           ELSE IF prior = <<>> THEN before
                           ELSE IF prior[Len(prior)].mouseX = e.clientX - RectLeft
                           THEN prior[Len(prior)].origin ELSE NullIdx]
    IN  IF ~s.g.zoomed THEN s
        ELSE IF s.g.listenerCalls # <<>> THEN [s EXCEPT !.g.pending = Append(@, rec)]
        ELSE [s EXCEPT !.g.anchor = Anchor(s, rec)]

WheelStep(e) ==
    LET s0 == Enter("onWheel", e)
    IN  NoteZoom(s0, onWheel(s0, e), e)

Wheel(E) ==
    /\ Len(zoomTasks) < MaxZoomTasks
    /\ \E e \in E : Becomes(WheelStep(e))

\* a wheel tick out of a bounded number of ticks
ZoomWheel(E) ==
    /\ g.zooms < MaxZooms
    /\ Len(zoomTasks) < MaxZoomTasks
    /\ \E e \in E : Becomes([WheelStep(e) EXCEPT !.g.zooms = @ + 1])

ZoomListenerResume ==
    /\ zoomTasks # <<>>
    /\ LET s == ZoomListenerRest(Begin(State, "zoomListener"))
       IN  Becomes([s EXCEPT !.g.anchor = Anchor(s, Head(g.pending)),
                             !.g.pending = Tail(@)])

HostLayout ==
    /\ dom.scrollWidth # RMax(RInt(dom.clientWidth), totalWidth(State))
    /\ Becomes(HostLayoutStep(Begin(State, "layout")))

---------------------------------------------------------------------------------------------------------------------------------------------------
(* Spec: the frame scheduler.  Every kind of frame-requesting call of the  *)
(* Chart (its API, a hover move, a leave, a wheel zoom without listener),  *)
(* the host's frames and destroy(), over a chart whose content fits the    *)
(* container.                                                              *)

HoverMoves ==
    [isPrimary : {TRUE}, pointerType : {"mouse"}, clientX : {3}, clientY : {4}]
WheelAt3 == [clientX : {3}, deltaY : {-100, 100}]

Next ==
    /\ CanRequest
    /\ \/ ScheduleDraw
       \/ UpdateData({<<>>, DataShort})
       \/ Resize
       \/ UpdateOptions({[kWidth |-> Opt0.kWidth, kGap |-> Opt0.kGap]})
       \/ SetPaneRenderers({MAIN, "none"})
       \/ Destroy
       \/ FrameFire
       \/ PointerMove(HoverMoves)
       \/ PointerLeave(HoverMoves)
       \/ Wheel(WheelAt3)

Spec == Init /\ [][Next]_vars

----------------------------------------------------------------------------
(* SpecZoom: wheel zooming of a mounted chart, for every device pixel       *)
(* ratio and starting column width, with and without the zoom listener of   *)
(* KLineChart.vue.                                                          *)

ZoomDprs == {RInt(1), Rat(3, 2), RInt(2), RInt(3)}
ZoomKWidths == {RInt(2), RInt(3), RInt(4)}
ZoomScrolls == {RInt(0), RInt(9)}

\* onMounted of KLineChart.vue, then the first layout and frame, and the
\* container scrolled to an offset
Mounted(opt, domEl, listener, scrollLeft) ==
    LET s0 == NewChart(opt, domEl)
        s1 == IF listener THEN setOnZoomChange(s0) ELSE s0
        s2 == setPaneRenderers(s1, MAIN, 2 * MaxPanes + 1)
        s3 == resize(updateData(s2, DataLong))
        s4 == HostSetScrollLeft(HostLayoutStep(s3), scrollLeft)
        s5 == onScroll([s4 EXCEPT !.scrollPending = FALSE])
        s6 == FrameCallback([s5 EXCEPT !.rafQueue = {}])
    IN  [s6 EXCEPT !.g = G0]

InitZoom ==
    /\ \E dpr \in ZoomDprs, kWidth \in ZoomKWidths, listener \in BOOLEAN,
          scrollLeft \in ZoomScrolls :
          InitWith([Mounted([Opt0 EXCEPT !.kWidth = kWidth, !.kGap = RInt(2)],
                            [Dom0 EXCEPT !.dpr = dpr], listener, scrollLeft)
                       EXCEPT !.g.watch = "event"])
    /\ pf = NullRec

NextZoom ==
    \/ ZoomWheel(WheelEvents)
    \/ ZoomListenerResume
    \/ HostLayout
    \/ Scroll
    \/ FrameFire

SpecZoom == InitZoom /\ [][NextZoom]_vars

----------------------------------------------------------------------------
(* SpecRapid: wheel ticks that follow one another while the zoom listener   *)
(* of KLineChart.vue is still suspended.                                    *)

InitRapid ==
    /\ \E dpr \in ZoomDprs, kWidth \in ZoomKWidths, scrollLeft \in ZoomScrolls :
          InitWith([Mounted([Opt0 EXCEPT !.kWidth = kWidth, !.kGap = RInt(2)],
                            [Dom0 EXCEPT !.dpr = dpr], TRUE, scrollLeft)
                       EXCEPT !.g.watch = "rapid"])
    /\ pf = NullRec

SpecRapid == InitRapid /\ [][NextZoom]_vars

----------------------------------------------------------------------------
(* SpecInput: pointer and mouse input on a mounted chart.                   *)

\* primary touch and mouse pointers at every x, and one secondary finger
YBelowPlot == 13
InputPointerEvents ==
    [isPrimary : {TRUE}, pointerType : {"touch", "mouse"}, clientX : XS, clientY : {4}]
        \cup [isPrimary : {FALSE}, pointerType : {"touch"}, clientX : {3}, clientY : {4}]
\* the main button at every x, one press of another button, and one press of
\* the main button below the plot area
InputMouseEvents ==
    [button : {0}, clientX : XS, clientY : {4}]
        \cup [button : {2}, clientX : {3}, clientY : {4}]
        \cup [button : {0}, clientX : {3}, clientY : {YBelowPlot}]

\* a container a drag between the two xs scrolls from end to end
DomInput == [Dom0 EXCEPT !.rectW = 40, !.clientWidth = 40]

InitInput ==
    /\ InitWith([Mounted([Opt0 EXCEPT !.kGap = RInt(2)], DomInput, TRUE, RInt(0))
                    EXCEPT !.g.watch = "event"])
    /\ pf = NullRec

NextInput ==
    \/ PointerDown(InputPointerEvents)
    \/ PointerMove(InputPointerEvents)
    \/ PointerUp(InputPointerEvents)
    \/ PointerLeave(InputPointerEvents)
    \/ MouseDown(InputMouseEvents)
    \/ MouseMove(InputMouseEvents)
    \/ MouseUp
    \/ MouseLeave
    \/ Scroll
    \/ FrameFire

SpecInput == InitInput /\ [][NextInput]_vars

----------------------------------------------------------------------------
(* SpecTap: presses and releases on a mounted chart, with the frames the    *)
(* host fires in between.                                                   *)

\* presses inside the plot area, and one press of another button
TapMouseEvents ==
    [button : {0}, clientX : XS, clientY : {4}]
        \cup [button : {2}, clientX : {3}, clientY : {4}]

InitTap ==
    /\ InitWith([Mounted([Opt0 EXCEPT !.kGap = RInt(2)], DomInput, TRUE, RInt(0))
                    EXCEPT !.g.watch = "tap"])
    /\ pf = NullRec

NextTap ==
    \/ PointerDown(InputPointerEvents)
    \/ PointerUp(InputPointerEvents)
    \/ MouseDown(TapMouseEvents)
    \/ MouseUp
    \/ PointerMove(InputPointerEvents)
    \/ Scroll
    \/ FrameFire

SpecTap == InitTap /\ [][NextTap]_vars

----------------------------------------------------------------------------
(* SpecClear: the events that clear the hover state (leave, scroll, wheel   *)
(* zoom with the component's listener) among the presses and moves that set *)
(* it.                                                                      *)

ClearPointerEvents ==
    [isPrimary : BOOLEAN, pointerType : {"touch"}, clientX : {3}, clientY : {4}]
\* wheel ticks in a behaviour of SpecClear
MaxClearZooms == 1
ClearHovers ==
    [isPrimary : {TRUE}, pointerType : {"mouse"}, clientX : {14}, clientY : {4}]

InitClear ==
    /\ InitWith([Mounted([Opt0 EXCEPT !.kGap = RInt(2)], DomInput, TRUE, RInt(0))
                    EXCEPT !.g.watch = "event"])
    /\ pf = NullRec

NextClear ==
    \/ PointerDown(ClearPointerEvents)
    \/ PointerMove(ClearHovers)
    \/ PointerLeave(ClearPointerEvents)
    \/ MouseLeave
    \/ Scroll
    \/ g.zooms < MaxClearZooms /\ ZoomWheel(WheelAt3)
    \/ ZoomListenerResume
    \/ HostLayout
    \/ FrameFire

SpecClear == InitClear /\ [][NextClear]_vars

----------------------------------------------------------------------------
(* SpecFetch: the application's data fetch, which resolves with records or  *)
(* rejects with the provider's error, around a mounted chart.               *)

\* the watcher of KLineChart.vue on props.data, with autoScrollToRight
DataWatcher(s, data) ==
    LET s1 == updateOptions(s, [yPaddingPx |-> s.chart.opt.yPaddingPx])
        s2 == HostLayoutStep(updateData(s1, data))
    IN  scheduleDraw(WriteScrollLeft(s2, s2.dom.scrollWidth))

\* onMounted of the application that rewrites kdata with no records on an error
AppOnMounted_EmptyOnError(s, outcome) ==
    IF outcome.ok THEN DataWatcher([s EXCEPT !.g.fetched = Arr(outcome.data)], outcome.data)
    ELSE DataWatcher(s, <<>>)

\* onMounted of the application: `kdata.value = await fetch(...)`; a rejected
\* await leaves the function before the assignment
AppOnMounted(s, outcome) ==
    IF outcome.ok THEN DataWatcher([s EXCEPT !.g.fetched = Arr(outcome.data)], outcome.data)
    ELSE s

FetchOutcomes ==
    [ok : {TRUE}, data : {<<>>, DataShort, DataLong}] \cup [ok : {FALSE}, data : {<<>>}]

FetchSettled ==
    \E outcome \in FetchOutcomes :
        Becomes(AppOnMounted(Begin(State, IF outcome.ok THEN "fetchResolved"
                                                         ELSE "fetchRejected"), outcome))

InitFetch ==
    /\ InitWith([Mounted([Opt0 EXCEPT !.kGap = RInt(2)], Dom0, TRUE, RInt(0))
                    EXCEPT !.g.watch = "event", !.g.fetched = Arr(DataLong)])
    /\ pf = NullRec

NextFetch ==
    \/ FetchSettled
    \/ FrameFire
    \/ Scroll
    \/ Resize
    \/ PointerMove(InputPointerEvents)
    \/ PointerLeave(HoverMoves)

SpecFetch == InitFetch /\ [][NextFetch]_vars

----------------------------------------------------------------------------
(* SpecTooltip: hover moves over a mounted chart, for containers and        *)
(* tooltip elements of several sizes.                                       *)

MaxTooltipX == 40
TooltipViews == {[w |-> 30, h |-> 14], [w |-> 50, h |-> 40], [w |-> 60, h |-> 60]}
\* a small tooltip element, and the size the controller starts with
TooltipSizes == {[width |-> 4, height |-> 3], Ic0.tooltipSize}
TooltipMoves ==
    [isPrimary : {TRUE}, pointerType : {"mouse"},
     clientX : {3, 14, 30, MaxTooltipX}, clientY : {4, 10, 20}]

InitTooltip ==
    /\ \E v \in TooltipViews :
          InitWith([Mounted([Opt0 EXCEPT !.kGap = RInt(2)],
                            [Dom0 EXCEPT !.rectW = v.w, !.rectH = v.h,
                                         !.clientWidth = v.w, !.scrollWidth = RInt(v.w)],
                            TRUE, RInt(0))
                       EXCEPT !.g.watch = "event"])
    /\ pf = NullRec

SetTooltipSize(S) ==
    \E size \in S : Becomes(setTooltipSize(Begin(State, "setTooltipSize"), size))

NextTooltip ==
    \/ SetTooltipSize(TooltipSizes)
    \/ PointerMove(TooltipMoves)
    \/ FrameFire

SpecTooltip == InitTooltip /\ [][NextTooltip]_vars

----------------------------------------------------------------------------
(* SpecSort: the records toKLineData and the BaoStock fetch functions       *)
(* return, as functions of the rows the provider sent.                      *)

\* arr.sort((a, b) => a.timestamp - b.timestamp): the sort is stable
RECURSIVE InsertByTimestamp(_, _)
InsertByTimestamp(sorted, e) ==
    IF sorted = <<>> THEN <<e>>
    ELSE IF sorted[Len(sorted)].timestamp - e.timestamp <= 0 THEN Append(sorted, e)
    ELSE Append(InsertByTimestamp(SubSeq(sorted, 1, Len(sorted) - 1), e),
                sorted[Len(sorted)])

RECURSIVE SortByTimestamp(_)
SortByTimestamp(arr) ==
    IF arr = <<>> THEN <<>>
    ELSE InsertByTimestamp(SortByTimestamp(SubSeq(arr, 1, Len(arr) - 1)), arr[Len(arr)])

toKLineData(arr) ==
    SortByTimestamp([i \in 1..Len(arr) |->
                        [timestamp |-> arr[i].timestamp, close |-> arr[i].close]])

\* days from 1970-01-01 to a day of the Gregorian calendar, as Date.UTC counts
DaysFromCivil(year, month, day) ==
    LET y == IF month <= 2 THEN year - 1 ELSE year
        era == y \div 400
        yoe == y - era * 400
        mp == (month + 9) % 12
        doy == (153 * mp + 2) \div 5 + day - 1
        doe == yoe * 365 + yoe \div 4 - yoe \div 100 + doy
    IN  era * 146097 + doe - 719468

\* Date.UTC(year, month - 1, day, 0 - 8, 0, 0, 0), counted in hours instead of
\* milliseconds
ymdToShanghaiTimestamp(ymd) == DaysFromCivil(ymd.year, ymd.month, ymd.day) * 24 - 8

\* a row's date field is 'YYYY-MM-DD', whatever the frequency of the request
mapBaoStockToKLineData(item) ==
    [timestamp |-> ymdToShanghaiTimestamp(item.date), close |-> item.close]

\* what getKlineDataBaoStock and queryKlineDataBaoStock make of a response
getKlineDataBaoStock(result) ==
    IF ~result.success THEN [threw |-> TRUE, data |-> <<>>]
    ELSE IF Len(result.data) = 0 THEN [threw |-> FALSE, data |-> <<>>]
    ELSE [threw |-> FALSE,
          data |-> SortByTimestamp([i \in 1..Len(result.data) |->
                                       mapBaoStockToKLineData(result.data[i])])]

MaxRows == 3
\* rows of two trading days around a month's end and of the day after a leap day;
\* the bars of one day of a minute-frequency request carry the same date
SortDates ==
    {[year |-> 2024, month |-> 1, day |-> 31], [year |-> 2024, month |-> 2, day |-> 1],
     [year |-> 2024, month |-> 3, day |-> 1]}
SortCloses == {1, 2}
BaoStockRows == UNION {[1..n -> [date : SortDates, close : SortCloses]] : n \in 0..MaxRows}
DongCaiRows ==
    UNION {[1..n -> [timestamp : {10, 20, 30}, close : SortCloses]] : n \in 0..MaxRows}

InitSort ==
    /\ InitWith(NewChart(Opt0, Dom0))
    /\ \/ \E rows \in DongCaiRows :
             pf = [fn |-> "toKLineData", done |-> FALSE, in |-> rows,
                   out |-> [threw |-> FALSE, data |-> <<>>]]
       \/ \E rows \in BaoStockRows, success \in BOOLEAN :
             pf = [fn |-> "getKlineDataBaoStock", done |-> FALSE,
                   in |-> [success |-> success, data |-> rows],
                   out |-> [threw |-> FALSE, data |-> <<>>]]

ApplyToKLineData ==
    /\ ~pf.done /\ pf.fn = "toKLineData"
    /\ pf' = [pf EXCEPT !.done = TRUE,
                        !.out = [threw |-> FALSE, data |-> toKLineData(pf.in)]]
    /\ UNCHANGED <<chart, ic, dom, rafQueue, scrollPending, zoomTasks, heap, g>>

ApplyGetKlineDataBaoStock ==
    /\ ~pf.done /\ pf.fn = "getKlineDataBaoStock"
    /\ pf' = [pf EXCEPT !.done = TRUE, !.out = getKlineDataBaoStock(pf.in)]
    /\ UNCHANGED <<chart, ic, dom, rafQueue, scrollPending, zoomTasks, heap, g>>

NextSort == ApplyToKLineData \/ ApplyGetKlineDataBaoStock

SpecSort == InitSort /\ [][NextSort]_vars

----------------------------------------------------------------------------
(* SpecPane: hover moves at every height of the plot area, over one pane,   *)
(* two adjacent panes and two panes with a gap between them.                *)

MaxPaneY == 12
PaneMoves ==
    [isPrimary : {TRUE}, pointerType : {"mouse"}, clientX : {3}, clientY : 0..MaxPaneY]
PaneOptions ==
    {[panes |-> Panes0, paneGap |-> 0], [panes |-> Panes0, paneGap |-> 2],
     [panes |-> Panes1, paneGap |-> 0]}

InitPane ==
    /\ \E o \in PaneOptions :
          InitWith([Mounted([Opt0 EXCEPT !.kGap = RInt(2), !.panes = o.panes,
                                         !.paneGap = o.paneGap],
                            DomInput, TRUE, RInt(0))
                       EXCEPT !.g.watch = "event"])
    /\ pf = NullRec

NextPane ==
    \/ PointerMove(PaneMoves)
    \/ PointerLeave(HoverMoves)
    \/ FrameFire

SpecPane == InitPane /\ [][NextPane]_vars

----------------------------------------------------------------------------
(* SpecRenderers: setPaneRenderers with every pane id and every array a     *)
(* caller can pass, its own ones and the ones the panes hold.               *)

InitRenderers ==
    /\ InitWith([NewChart(Opt0, Dom0) EXCEPT !.g.watch = "event"])
    /\ pf = NullRec

NextRenderers ==
    \/ SetPaneRenderers(PaneIds)
    \/ FrameFire

SpecRenderers == InitRenderers /\ [][NextRenderers]_vars

----------------------------------------------------------------------------
(* SpecQuiet: a burst of at most MaxBurst events and API calls on a mounted *)
(* chart without zoom listener.  The host runs every pending frame callback *)
(* and delivers every queued scroll event.                                  *)

MaxBurst == 3

\* one event or API call of the burst; g.events counts them
Burst(s) == Becomes([s EXCEPT !.g.events = @ + 1])

InitQuiet ==
    /\ InitWith([Mounted([Opt0 EXCEPT !.kGap = RInt(2)], Dom0, FALSE, RInt(0))
                    EXCEPT !.g.watch = "quiet"])
    /\ pf = NullRec

NextQuiet ==
    \/ /\ g.events < MaxBurst
       /\ \/ Burst(scheduleDraw(Begin(State, "scheduleDraw")))
          \/ \E d \in {<<>>, DataShort} :
                Burst(updateData(Begin(State, "updateData"), d))
          \/ Burst(resize(Begin(State, "resize")))
          \/ \E e \in HoverMoves : Burst(onPointerMove(Enter("onPointerMove", e), e))
          \/ \E e \in HoverMoves : Burst(onPointerLeave(Enter("onPointerLeave", e), e))
          \/ \E e \in WheelAt3 : Burst(WheelStep(e))
          \/ Burst(destroy(Begin(State, "destroy")))
    \/ Scroll
    \/ FrameFire

\* the step that leaves no frame handle pending: in NextQuiet a FrameFire step
\* (the host runs the callback) or a destroy that cancels the handle
FrameHandleServed == rafQueue # {} /\ rafQueue' = {}

\* the step that delivers the queued scroll event: in NextQuiet a Scroll step
ScrollDelivered == scrollPending /\ scrollPending' = FALSE

\* the browser runs a requested frame callback before the next repaint and
\* dispatches a queued scroll event: neither stays pending forever
SpecQuiet ==
    /\ InitQuiet /\ [][NextQuiet]_vars
    /\ WF_rafQueue(FrameHandleServed)
    /\ WF_scrollPending(ScrollDelivered)

----------------------------------------------------------------------------
(* SpecRange: getVisibleRange as a function of its arguments.              *)

RangeScrolls == {RInt(k) : k \in 0..MaxScroll} \cup {RInt(400)}
RangeColumns ==
    {[kWidth |-> RInt(6), kGap |-> RInt(2)], [kWidth |-> Rat(7, 3), kGap |-> RInt(1)],
     [kWidth |-> RInt(1), kGap |-> RInt(0)]}
RangeViews == {RInt(1), RInt(24), RInt(50)}
RangeTotals == {0, 1, MaxData, 100}

InitRange ==
    /\ InitWith(NewChart(Opt0, Dom0))
    /\ \E scrollLeft \in RangeScrolls, viewWidth \in RangeViews, c \in RangeColumns,
          total \in RangeTotals :
          pf = [fn |-> "getVisibleRange", done |-> FALSE,
                in |-> [scrollLeft |-> scrollLeft, viewWidth |-> viewWidth,
                        kWidth |-> c.kWidth, kGap |-> c.kGap, total |-> total],
                out |-> [start |-> 0, end |-> 0]]

ApplyGetVisibleRange ==
    /\ ~pf.done
    /\ pf' = [pf EXCEPT !.done = TRUE,
                        !.out = getVisibleRange(pf.in.scrollLeft, pf.in.viewWidth,
                                                pf.in.kWidth, pf.in.kGap, pf.in.total)]
    /\ UNCHANGED <<chart, ic, dom, rafQueue, scrollPending, zoomTasks, heap, g>>

NextRange == ApplyGetVisibleRange

SpecRange == InitRange /\ [][NextRange]_vars

----------------------------------------------------------------------------
(* SpecLayout: the pane heights layoutPanes leaves, as a function of the   *)
(* pane ratios, the gap and the plot height.                               *)

PanesHalf == <<[id |-> MAIN, ratio |-> Rat(1, 2)], [id |-> SUB, ratio |-> Rat(1, 2)]>>
LayoutPaneSets == {Panes0, Panes1, PanesHalf}
LayoutGaps == 0..MaxGap
LayoutHeights == (1..MaxPlotHeight) \cup {400}

InitLayout ==
    /\ InitWith(NewChart(Opt0, Dom0))
    /\ \E panes \in LayoutPaneSets, paneGap \in LayoutGaps, plotHeight \in LayoutHeights :
          /\ plotHeight >= Len(panes) + (Len(panes) - 1) * paneGap
          /\ pf = [fn |-> "layoutPanes", done |-> FALSE,
                   in |-> [panes |-> panes, paneGap |-> paneGap,
                           plotHeight |-> plotHeight],
                   out |-> <<>>]

\* new Chart(dom, opt) over a container of the plot height plus the axis, resize()
LaidOut(panes, paneGap, plotHeight) ==
    resize(NewChart([Opt0 EXCEPT !.panes = panes, !.paneGap = paneGap],
                    [Dom0 EXCEPT !.rectH = plotHeight + Opt0.bottomAxisHeight]))

ApplyLayoutPanes ==
    /\ ~pf.done
    /\ LET s == LaidOut(pf.in.panes, pf.in.paneGap, pf.in.plotHeight)
       IN  pf' = [pf EXCEPT !.done = TRUE,
                            !.out = [i \in 1..Len(s.chart.paneRenderers) |->
                                        s.chart.paneRenderers[i].height]]
    /\ UNCHANGED <<chart, ic, dom, rafQueue, scrollPending, zoomTasks, heap, g>>

NextLayout == ApplyLayoutPanes

SpecLayout == InitLayout /\ [][NextLayout]_vars

----------------------------------------------------------------------------
(* SpecPrice: Pane.updateRange and PriceScale.priceToY as functions of the  *)
(* data, the visible window and a price.                                    *)

MaxPriceLen == 2
\* two ordinary candles, a flat one, and a record whose high is below its low
\* (a provider field that failed to parse is read as 0)
PriceCandles == {Candle(4, 9, 1, 7), Candle(6, 8, 2, 3), Candle(5, 5, 5, 5), Candle(3, 0, 6, 4)}
PriceData == UNION {[1..n -> PriceCandles] : n \in 0..MaxPriceLen}
PriceWindows == [start : 0..MaxPriceLen, end : 0..(MaxPriceLen + 1)]
PricePoints == {0, 5, 100}

InitPrice ==
    /\ InitWith(NewChart(Opt0, Dom0))
    /\ \E data \in PriceData, range \in PriceWindows, price \in PricePoints :
          pf = [fn |-> "updateRange", done |-> FALSE,
                in |-> [data |-> data, range |-> range, price |-> price],
                out |-> [priceRange |-> DefaultPriceRange, y |-> RInt(0)]]

ApplyUpdateRange ==
    /\ ~pf.done
    /\ LET pane == updateRange(setPadding(setLayout(NewPane(MAIN, 1), 0, 9), 1, 1),
                               pf.in.data, pf.in.range)
       IN  pf' = [pf EXCEPT !.done = TRUE,
                            !.out = [priceRange |-> pane.priceRange,
                                     y |-> priceToY(pane, pf.in.price)]]
    /\ UNCHANGED <<chart, ic, dom, rafQueue, scrollPending, zoomTasks, heap, g>>

NextPrice == ApplyUpdateRange

SpecPrice == InitPrice /\ [][NextPrice]_vars

----------------------------------------------------------------------------
(* SpecAlign: the aligned candle body and wick as functions of the logical  *)
(* left, the requested width and the device pixel ratio.                    *)

MaxAlignWidth == 6
AlignDprs == {RInt(1), Rat(3, 2), RInt(2), RInt(3)}
\* every half width up to the bound, a width that rounds up, and a negative one
AlignWidths == {Rat(k, 2) : k \in 0..(2 * MaxAlignWidth)} \cup {Rat(667, 100), RInt(-2)}
AlignLefts == {RInt(0), Rat(7, 2), RInt(10), Rat(31, 3)}
AlignHeights == {RInt(0), RInt(50)}
AlignFns == {"createAlignedKLine", "createAlignedKLineFromPx"}

InitAlign ==
    /\ InitWith(NewChart(Opt0, Dom0))
    /\ \E fn \in AlignFns, x \in AlignLefts, kWidth \in AlignWidths, dpr \in AlignDprs,
          height \in AlignHeights :
          pf = [fn |-> fn, done |-> FALSE,
                in |-> [x |-> x, y |-> RInt(100), kWidth |-> kWidth, height |-> height,
                        dpr |-> dpr],
                out |-> NullRec]

ApplyCreateAlignedKLine ==
    /\ ~pf.done /\ pf.fn = "createAlignedKLine"
    /\ pf' = [pf EXCEPT !.done = TRUE,
                        !.out = createAlignedKLine(pf.in.x, pf.in.y, pf.in.kWidth,
                                                   pf.in.height, pf.in.dpr)]
    /\ UNCHANGED <<chart, ic, dom, rafQueue, scrollPending, zoomTasks, heap, g>>

ApplyCreateAlignedKLineFromPx ==
    /\ ~pf.done /\ pf.fn = "createAlignedKLineFromPx"
    /\ pf' = [pf EXCEPT !.done = TRUE,
                        !.out = CandleAligned(pf.in.x, pf.in.y, pf.in.kWidth,
                                              pf.in.height, pf.in.dpr)]
    /\ UNCHANGED <<chart, ic, dom, rafQueue, scrollPending, zoomTasks, heap, g>>

NextAlign == ApplyCreateAlignedKLine \/ ApplyCreateAlignedKLineFromPx

SpecAlign == InitAlign /\ [][NextAlign]_vars

----------------------------------------------------------------------------
(* SpecViewport: the viewport and the pane heights resize() computes, as    *)
(* functions of the container's size.                                       *)

MaxSmallSide == 7
\* collapsed, smaller than the axes, just larger than the axes, ordinary
ViewportSides == (0..MaxSmallSide) \cup {Dom0.rectW}

InitViewport ==
    /\ InitWith(NewChart(Opt0, Dom0))
    /\ \E w \in ViewportSides, h \in ViewportSides, panes \in LayoutPaneSets :
          pf = [fn |-> "computeViewport", done |-> FALSE,
                in |-> [rectW |-> w, rectH |-> h, panes |-> panes],
                out |-> NullRec]

ApplyResize ==
    /\ ~pf.done
    /\ LET s == resize(NewChart([Opt0 EXCEPT !.panes = pf.in.panes],
                                [Dom0 EXCEPT !.rectW = pf.in.rectW, !.rectH = pf.in.rectH,
                                             !.clientWidth = pf.in.rectW]))
       IN  pf' = [pf EXCEPT !.done = TRUE,
                            !.out = [viewport |-> s.chart.viewport,
                                     heights |-> [i \in 1..Len(s.chart.paneRenderers) |->
                                                     s.chart.paneRenderers[i].height]]]
    /\ UNCHANGED <<chart, ic, dom, rafQueue, scrollPending, zoomTasks, heap, g>>

NextViewport == ApplyResize

SpecViewport == InitViewport /\ [][NextViewport]_vars

----------------------------------------------------------------------------
(* Claims checked under Spec.                                              *)

\* C1: whatever frame-requesting calls were made, at most one frame handle is
\* pending at every moment; no call draws synchronously; when the frame fires
\* draw() runs exactly once and no handle is pending afterwards.
C1_OneFramePerBurst ==
    /\ Cardinality(rafQueue) <= 1
    /\ g.op # "frame" => g.draws = 0
    /\ g.op = "frame" => g.draws = 1 /\ rafQueue = {} /\ chart.raf = NoHandle

\* a frame that served a burst of at least two requests
C1_Witness == g.op = "frame" /\ g.served >= 2 /\ g.draws = 1 /\ rafQueue = {}

\* C2: destroy() leaves no pending frame and a null handle, and from then on no
\* frame callback performs draw().
C2_NoDrawAfterDestroy ==
    g.destroyed =>
        /\ g.op = "destroy" => rafQueue = {} /\ chart.raf = NoHandle
        /\ g.draws = 0

PaneRefsNow == { chart.paneRenderers[i].renderers : i \in 1..Len(chart.paneRenderers) }

\* C8 as stated: setPaneRenderers installs a new list and never changes the
\* contents of a list that was installed before.
C8_NeverMutatedInPlace ==
    [][g'.op = "setPaneRenderers" => \A r \in PaneRefsNow : heap'[r] = heap[r]]_vars

\* C8 amended: setPaneRenderers keeps every pane's array object and rewrites the
\* addressed pane's array in place, within the one call: afterwards each array
\* holds what it held before, or a whole list of the caller, or nothing (the
\* caller passed the pane's own array) - never a mix of old and new elements.
C8_RewrittenInPlaceWhole ==
    [][g'.op = "setPaneRenderers" =>
        /\ \A i \in 1..Len(chart.paneRenderers) :
              chart'.paneRenderers[i].renderers = chart.paneRenderers[i].renderers
        /\ Len(chart'.paneRenderers) = Len(chart.paneRenderers)
        /\ \A r \in PaneRefsNow :
              \/ heap'[r] = heap[r]
              \/ heap'[r] = <<>>
              \/ \E l \in LitRefs : heap'[r] = heap[l]]_vars

\* a second list installed over a first one
C8_Witness ==
    /\ g.op = "setPaneRenderers"
    /\ \E i \in 1..Len(chart.paneRenderers) :
          heap[chart.paneRenderers[i].renderers] = RendererLists[2]

----------------------------------------------------------------------------
(* Claims checked under SpecZoom.                                          *)

\* C3 as stated: after any zoom that changed kWidth, once the zoom's scroll
\* offset is in place, the index under the wheel's x is the index that was
\* there before the zoom, within 1.
C3_AnchorKept ==
    g.anchor # NullRec => IAbs(g.anchor.after - g.anchor.before) <= 1

\* C3 amended: the index under the wheel's x is kept within 1 by every zoom
\* whose target offset the container takes as it is (it lies in
\* [0, scrollWidth - clientWidth]) and whose column size is still the current
\* one when the offset is applied.
C3_AnchorKeptUnclamped ==
    (g.anchor # NullRec /\ ~g.anchor.clamped /\ ~g.anchor.stale) =>
        IAbs(g.anchor.after - g.anchor.before) <= 1

\* an unclamped zoom over a candle well inside the data
C3_Witness ==
    /\ g.anchor # NullRec
    /\ ~g.anchor.clamped /\ ~g.anchor.stale
    /\ g.anchor.before >= 2

\* C4: after every zoom that changed kWidth, round(kWidth * dpr) is odd.
C4_PhysicalWidthOdd ==
    g.zoomed => MathRound(RMul(chart.opt.kWidth, ChartDpr(State))) % 2 = 1

\* C9: a zoom that changes kWidth, with a listener registered, leaves the
\* container alone and calls the listener once with the new kWidth, the new
\* kGap and the target offset (the offset that keeps the pointed index), and
\* the offset is written when the listener resumes; without a listener the
\* zoom writes the target clamped into [0, scrollWidth - clientWidth] and
\* requests a frame.
C9_ListenerDefersScroll ==
    [][/\ (g'.op = "onWheel" /\ g'.zoomed) =>
            IF chart.onZoomChange
            THEN LET mouseX == RInt(g'.pending[Len(g'.pending)].mouseX)
                     centerIndex == RDiv(RAdd(dom.scrollLeft, mouseX),
                                         RAdd(chart.opt.kWidth, chart.opt.kGap))
                     target == RSub(RMul(centerIndex,
                                         RAdd(chart'.opt.kWidth, chart'.opt.kGap)),
                                    mouseX)
                 IN  /\ dom' = dom
                     /\ g'.scrollWrites = 0
                     /\ g'.listenerCalls =
                            <<[kWidth |-> chart'.opt.kWidth, kGap |-> chart'.opt.kGap,
                               targetScrollLeft |-> target]>>
                     /\ zoomTasks' = zoomTasks \o g'.listenerCalls
            ELSE /\ g'.listenerCalls = <<>>
                 /\ zoomTasks' = zoomTasks
                 /\ g'.scrollWrites = 1
                 /\ dom'.scrollLeft =
                        RMin(RMax(RInt(0), g'.target), maxScrollLeft(State))
                 /\ g'.requests = 1
                 /\ chart'.raf # NoHandle /\ rafQueue' = {chart'.raf}
       /\ g'.op = "zoomListener" =>
            /\ g'.scrollWrites = 1
            /\ zoomTasks' = Tail(zoomTasks)
            /\ dom'.scrollLeft =
                   RMin(RMax(RInt(0), Head(zoomTasks).targetScrollLeft),
                        RMax(RInt(0), RSub(dom'.scrollWidth, RInt(dom'.clientWidth))))
      ]_vars

\* a zoom that told the listener and left the container alone
C9_Witness ==
    /\ g.op = "onWheel" /\ g.zoomed
    /\ Len(g.listenerCalls) = 1 /\ g.scrollWrites = 0
    /\ zoomTasks # <<>>

----------------------------------------------------------------------------
(* Claims checked under SpecRange and SpecLayout.                          *)

\* C5: for every scroll offset >= 0 and every data length, empty data and an
\* offset beyond the data included, getVisibleRange returns
\* 0 <= start <= end <= data.length.
C5_RangeOrdered ==
    pf.done =>
        /\ 0 <= pf.out.start
        /\ pf.out.start <= pf.out.end
        /\ pf.out.end <= pf.in.total

\* the column of index i, [kGap + i*unit, kGap + i*unit + kWidth), meets the
\* viewport [scrollLeft, scrollLeft + viewWidth)
ColumnOverlaps(in, i) ==
    LET left == RAdd(in.kGap, RMul(RInt(i), RAdd(in.kWidth, in.kGap)))
    IN  /\ RLt(left, RAdd(in.scrollLeft, in.viewWidth))
        /\ RLt(in.scrollLeft, RAdd(left, in.kWidth))

Scenario100(in) == in.total = 100 /\ in.kWidth = RInt(6) /\ in.kGap = RInt(2)

\* C6: every index of the data whose column meets the viewport lies in
\* [start, end); with 100 candles, kWidth 6 and kGap 2, offset 0 gives start 0
\* and offset 50 * 8 gives a range that holds index 50.
C6_OverlappingColumnsInRange ==
    pf.done =>
        /\ \A i \in 0..(pf.in.total - 1) :
              ColumnOverlaps(pf.in, i) => pf.out.start <= i /\ i < pf.out.end
        /\ (Scenario100(pf.in) /\ pf.in.scrollLeft = RInt(0)) => pf.out.start = 0
        /\ (Scenario100(pf.in) /\ pf.in.scrollLeft = RInt(400)) =>
              pf.out.start <= 50 /\ 50 < pf.out.end

\* the scenario's second case, with index 50 in view
C6_Witness ==
    /\ pf.done /\ Scenario100(pf.in) /\ pf.in.scrollLeft = RInt(400)
    /\ ColumnOverlaps(pf.in, 50)
    /\ pf.out.start <= 50 /\ 50 < pf.out.end

RECURSIVE SumTo(_, _)
SumTo(seq, i) == IF i = 0 THEN 0 ELSE seq[i] + SumTo(seq, i - 1)

\* C7: the pane heights plus (n-1) gaps add up to the plot height, for every
\* set of ratios, gap >= 0 and plot height >= n + (n-1)*gap; ratios 0.75 and
\* 0.25 over 400 with gap 0 give 300 and 100.
C7_LayoutConserves ==
    pf.done =>
        /\ SumTo(pf.out, Len(pf.out)) + (Len(pf.out) - 1) * pf.in.paneGap
              = pf.in.plotHeight
        /\ (pf.in.panes = Panes0 /\ pf.in.paneGap = 0 /\ pf.in.plotHeight = 400) =>
              pf.out = <<300, 100>>

----------------------------------------------------------------------------
(* Claims checked under SpecInput.                                         *)

MouseOps == {"onMouseDown", "onMouseMove", "onMouseUp", "onMouseLeave"}

\* C10: while a touch session is active, a mouse-down, mouse-move, mouse-up or
\* mouse-leave changes nothing of the controller (drag state, drag anchor,
\* crosshair and hover), nothing of the container (scrollLeft) and requests no
\* frame.
C10_MouseSuppressedInTouch ==
    [][(ic.isTouchSession /\ g'.op \in MouseOps) =>
          /\ ic' = ic
          /\ dom' = dom
          /\ chart' = chart /\ rafQueue' = rafQueue
          /\ g'.requests = 0 /\ g'.scrollWrites = 0]_vars

\* a mouse event that arrived in the middle of a touch drag
C10_Witness ==
    /\ g.op \in MouseOps
    /\ ic.isTouchSession /\ ic.isDragging
    /\ ic.crosshairPos # NullRec

----------------------------------------------------------------------------
(* Claims checked under SpecTap.                                           *)

\* what a press that took effect leaves in the controller
PressRecorded ==
    (g.op \in {"onPointerDown", "onMouseDown"} /\ g.tap # NullRec) =>
        /\ ic.isDragging
        /\ ic.dragStartX = g.tap.x
        /\ ic.scrollStartX = dom.scrollLeft
        /\ ic.crosshairPos # NullRec
        /\ ic.crosshairPos.y = RInt(g.tap.y - RectTop)

\* C11: a primary pointer-down or left-button mouse-down enters Dragging,
\* records scrollLeft and the cursor x as the drag anchor and moves the
\* crosshair to the pressed point; once the press is released with no move in
\* between and no frame is pending, the canvas shows that crosshair.
C11_TapShowsCrosshair ==
    /\ PressRecorded
    /\ (g.tap # NullRec /\ g.tap.up /\ rafQueue = {}) =>
          /\ g.tap.shown # NullRec
          /\ g.tap.shown = ic.crosshairPos

----------------------------------------------------------------------------
(* Claims checked under SpecInput (continued).                             *)

ReleaseOps == {"onPointerUp", "onPointerLeave", "onMouseUp", "onMouseLeave"}

\* C12 as stated: after any pointer-up, mouse-up, pointer-leave or mouse-leave
\* the controller is not Dragging, whatever came before.
C12_ReleaseEndsDrag ==
    (g.op \in ReleaseOps) => ~ic.isDragging

\* C12: after a pointer-up or pointer-leave of the primary pointer, and after a
\* mouse-up or mouse-leave outside a touch session, the controller is not
\* Dragging, whatever came before.
C12_HandledReleaseEndsDrag ==
    [][/\ (g'.op \in {"onPointerUp", "onPointerLeave"} /\ g'.event.isPrimary) =>
              ~ic'.isDragging
       /\ (g'.op \in {"onMouseUp", "onMouseLeave"} /\ ~ic.isTouchSession) =>
              ~ic'.isDragging]_vars

\* a release that ended a drag
C12_Witness ==
    /\ g.op \in ReleaseOps
    /\ g.wasDragging /\ ~ic.isDragging

----------------------------------------------------------------------------
(* Claims checked under SpecClear.                                         *)

ClearOps == {"onPointerLeave", "onMouseLeave", "onScroll", "onWheel"}

HoverCleared(c) ==
    /\ c.crosshairPos = NullRec
    /\ c.crosshairIndex = NullIdx
    /\ c.hoveredIndex = NullIdx
    /\ c.activePaneId = NULL

\* C13 as stated: right after any pointer-leave, mouse-leave, scroll or wheel
\* the crosshair position, crosshair index, hovered index and active pane id
\* are all null.
C13_ClearedAfterLeaveScrollWheel ==
    (g.op \in ClearOps) => HoverCleared(ic)

\* C13: right after a pointer-leave of the primary pointer, a mouse-leave
\* outside a touch session, a scroll or a wheel, the crosshair position,
\* crosshair index, hovered index and active pane id are all null.
C13_ClearedAfterHandledLeaveScrollWheel ==
    [][(\/ g'.op = "onPointerLeave" /\ g'.event.isPrimary
        \/ g'.op = "onMouseLeave" /\ ~ic.isTouchSession
        \/ g'.op \in {"onScroll", "onWheel"}) => HoverCleared(ic')]_vars

\* a wheel that zoomed, or a mouse-leave, found a crosshair and cleared it
C13_Witness ==
    /\ g.hadCrosshair /\ HoverCleared(ic)
    /\ \/ g.op = "onWheel" /\ g.zoomed
       \/ g.op = "onMouseLeave"

----------------------------------------------------------------------------
(* Claims checked under SpecInput: moves and presses.                      *)

\* the crosshair of controller c, in state s, is the one of the point of event e
CrosshairAt(s, c, e) ==
    LET idx == IndexUnder(s, RInt(e.clientX - RectLeft))
    IN  /\ c.crosshairPos # NullRec
        /\ c.crosshairPos.y = RInt(e.clientY - RectTop)
        /\ c.crosshairIndex = IF idx >= 0 /\ idx < Len(s.chart.data) THEN idx ELSE NullIdx

\* a move the controller does not filter out, arriving while it is Dragging
DragMove ==
    /\ ic.isDragging
    /\ \/ g'.op = "onPointerMove" /\ g'.event.isPrimary
       \/ g'.op = "onMouseMove" /\ ~ic.isTouchSession

\* C14: while the controller is Dragging, every pointer-move (of the primary
\* pointer) and every mouse-move (outside a touch session) leaves the crosshair
\* at the point of the event.
C14_DragMoveRefreshesCrosshair ==
    [][DragMove => CrosshairAt(State', ic', g'.event)]_vars

\* the pointer-move half of C14
PointerDragMoveRefreshesCrosshair ==
    [][(DragMove /\ g'.op = "onPointerMove") => CrosshairAt(State', ic', g'.event)]_vars


\* the point of event e lies in the plot area (updateHoverFromPoint's test)
InPlot(s, e) ==
    LET opt == s.chart.opt
        mouseX == e.clientX - RectLeft
        mouseY == e.clientY - RectTop
        plotWidth == IMax(1, s.dom.rectW) - opt.rightAxisWidth - PriceLabelWidth(opt)
        plotHeight == IMax(1, s.dom.rectH) - opt.bottomAxisHeight
    IN  mouseX >= 0 /\ mouseY >= 0 /\ mouseX <= plotWidth /\ mouseY <= plotHeight

\* a press the controller does not filter out
EffectivePress ==
    \/ g'.op = "onPointerDown" /\ g'.event.isPrimary
    \/ g'.op = "onMouseDown" /\ ~ic.isTouchSession /\ g'.event.button = 0

----------------------------------------------------------------------------
(* Claims checked under SpecZoom (continued).                              *)

KWidthInRange(opt) == RLe(opt.minKWidth, opt.kWidth) /\ RLe(opt.kWidth, opt.maxKWidth)

\* a wheel whose clamped new kWidth is the current kWidth
WheelAtLimit ==
    /\ g'.op = "onWheel"
    /\ ZoomNewKWidth(chart.opt, ChartDpr(State), g'.event.deltaY) = chart.opt.kWidth

\* C16: kWidth stays inside [minKWidth, maxKWidth] through every zoom; a zoom
\* whose clamped result is the current kWidth changes nothing of the chart
\* (kWidth, kGap, frame handle), leaves scrollLeft alone, calls no listener and
\* requests no frame.
C16_ZoomClampedAndNoOpAtLimit ==
    [][/\ KWidthInRange(chart'.opt)
       /\ WheelAtLimit =>
             /\ chart' = chart
             /\ dom' = dom
             /\ zoomTasks' = zoomTasks /\ rafQueue' = rafQueue
             /\ g'.listenerCalls = <<>> /\ g'.requests = 0 /\ g'.scrollWrites = 0]_vars

\* a zoom-out at minKWidth that left alone a kGap zoomAt would have replaced
C16_Witness ==
    /\ g.op = "onWheel" /\ g.event.deltaY > 0 /\ ~g.zoomed
    /\ chart.opt.kWidth = chart.opt.minKWidth
    /\ chart.opt.kGap # RDiv(RInt(PHYS_K_GAP), ChartDpr(State))

----------------------------------------------------------------------------
(* Claims checked under SpecPrice.                                         *)

\* the indices getVisiblePriceRange scans
PriceSlice == {i \in 0..(Len(pf.in.data) - 1) : pf.in.range.start <= i /\ i < pf.in.range.end}

SliceWellFormed == \A i \in PriceSlice : pf.in.data[i + 1].high >= pf.in.data[i + 1].low

RangeUpdated == pf.fn = "updateRange" /\ pf.done

\* C17 as stated: after the price range is recomputed from the visible slice,
\* maxPrice >= minPrice; for an empty slice the range is {100, 0}; priceToY is
\* finite.
C17_RangeOrdered ==
    RangeUpdated =>
        /\ pf.out.priceRange.maxPrice >= pf.out.priceRange.minPrice
        /\ PriceSlice = {} => pf.out.priceRange = [maxPrice |-> 100, minPrice |-> 0]
        /\ pf.out.y.d # 0

\* C17: after the price range is recomputed from a visible slice whose records
\* all have high >= low, maxPrice >= minPrice; for an empty slice the range is
\* exactly {100, 0}; priceToY is finite for every slice and price.
C17_RangeOrderedForWellFormedData ==
    RangeUpdated =>
        /\ SliceWellFormed => pf.out.priceRange.maxPrice >= pf.out.priceRange.minPrice
        /\ PriceSlice = {} => pf.out.priceRange = [maxPrice |-> 100, minPrice |-> 0]
        /\ pf.out.y.d # 0

\* a flat slice (maxPrice = minPrice) and an empty slice of non-empty data
C17_Witness ==
    /\ RangeUpdated
    /\ \/ PriceSlice # {} /\ pf.out.priceRange.maxPrice = pf.out.priceRange.minPrice
       \/ PriceSlice = {} /\ pf.in.data # <<>> /\ pf.out.priceRange = DefaultPriceRange

----------------------------------------------------------------------------
(* Claims checked under SpecAlign.                                         *)

Aligned == pf.fn \in AlignFns /\ pf.done

\* C18: for dpr 1, 1.5, 2 and 3 and every requested body width, the physical
\* body width createAlignedKLine returns, and the one createAlignedKLineFromPx
\* returns for the renderer's calcKWidthPx width, is odd; the wick's physical x
\* is the whole number left + (width - 1) / 2, with as many body pixels to its
\* left as to its right.
C18_BodyOddWickCentred ==
    Aligned =>
        LET left == pf.out.physBodyLeft
            width == pf.out.physBodyWidth
            wick == pf.out.physWickX
        IN  /\ width % 2 = 1
            /\ width = pf.out.physBodyRight - left
            /\ wick = RInt(left + (width - 1) \div 2)
            /\ RSub(wick, RInt(left)) = RSub(RInt(pf.out.physBodyRight - 1), wick)

\* a fractional dpr and a requested width whose rounded physical width is even
C18_Witness ==
    /\ Aligned
    /\ pf.in.dpr = Rat(3, 2)
    /\ MathRound(RMul(pf.in.kWidth, pf.in.dpr)) % 2 = 0
    /\ pf.out.physBodyWidth = MathRound(RMul(pf.in.kWidth, pf.in.dpr)) + 1
    /\ pf.out.physBodyWidth >= 3

----------------------------------------------------------------------------
(* Claims checked under SpecFetch.                                         *)

\* C19: the chart's data changes only in a step that calls updateData; a
\* rejected fetch changes nothing of the chart, the controller, the container
\* or the frame queue; the chart always holds the records of the last resolved
\* fetch, and every frame computes each pane's price range from them.
C19_FailedFetchKeepsData ==
    [][/\ chart'.data # chart.data => g'.updates > 0
       /\ g'.op = "fetchRejected" =>
             /\ chart' = chart /\ ic' = ic /\ dom' = dom
             /\ rafQueue' = rafQueue /\ scrollPending' = scrollPending
             /\ g'.updates = 0 /\ g'.requests = 0
       /\ chart'.data = g'.fetched.arr
       /\ (g'.op = "frame" /\ ~g'.threw) =>
             \A i \in 1..Len(chart'.paneRenderers) :
                 chart'.paneRenderers[i].priceRange =
                     getVisiblePriceRange(g'.fetched.arr, ic'.visibleRange.start,
                                          ic'.visibleRange.end)]_vars

\* a fetch was rejected after one had delivered records the chart has drawn
C19_Witness ==
    /\ g.op = "fetchRejected"
    /\ g.fetched = Arr(DataShort) /\ chart.data = DataShort
    /\ rafQueue = {}
    /\ chart.paneRenderers[1].priceRange = [maxPrice |-> 9, minPrice |-> 1]

----------------------------------------------------------------------------
(* Claims checked under SpecViewport.                                      *)

ViewportComputed == pf.fn = "computeViewport" /\ pf.done

\* the sizes that are floored: the view and every pane
ViewAndPanesAtLeastOne ==
    ViewportComputed =>
        /\ pf.out.viewport.viewWidth >= 1 /\ pf.out.viewport.viewHeight >= 1
        /\ \A i \in 1..Len(pf.out.heights) : pf.out.heights[i] >= 1

\* C20: for every container size, collapsed ones and ones smaller than the
\* axes included, viewWidth, viewHeight, plotWidth, plotHeight and every
\* pane's height are at least 1.
C20_SizesAtLeastOne ==
    /\ ViewAndPanesAtLeastOne
    /\ ViewportComputed =>
          pf.out.viewport.plotWidth >= 1 /\ pf.out.viewport.plotHeight >= 1

----------------------------------------------------------------------------
(* Claims checked under SpecTooltip.                                       *)

\* a hover move that hit a candle, which sets the tooltip position
HoverHitMove == g'.op = "onPointerMove" /\ ic'.hoveredIndex # NullIdx

\* C21 as stated: whenever a hover hit sets the tooltip position, x lies in
\* [padding, viewWidth - tooltipWidth - padding] and y in
\* [padding, viewHeight - tooltipHeight - padding].
C21_TooltipInsidePaddedViewport ==
    [][HoverHitMove =>
          /\ TooltipPadding <= ic'.tooltipPos.x
          /\ ic'.tooltipPos.x <= IMax(1, dom.rectW) - ic.tooltipSize.width - TooltipPadding
          /\ TooltipPadding <= ic'.tooltipPos.y
          /\ ic'.tooltipPos.y <= IMax(1, dom.rectH) - ic.tooltipSize.height - TooltipPadding
      ]_vars

\* C21: whenever a hover hit sets the tooltip position, the tooltip sits
\* preferGap right of the cursor when it fits there with the padding, otherwise
\* preferGap left of the cursor, or at the padding when it does not fit there
\* either; x lies in [padding, max(padding, viewWidth - tooltipWidth - padding)]
\* and y in [padding, max(padding, viewHeight - tooltipHeight - padding)], so
\* the upper ends are the stated ones exactly when the viewport holds the
\* tooltip and both paddings.
C21_TooltipFlipsAndClamps ==
    [][HoverHitMove =>
          LET mouseX == g'.event.clientX - RectLeft
              mouseY == g'.event.clientY - RectTop
              viewWidth == IMax(1, dom.rectW)
              viewHeight == IMax(1, dom.rectH)
              roomX == viewWidth - ic.tooltipSize.width - TooltipPadding
              roomY == viewHeight - ic.tooltipSize.height - TooltipPadding
              x == ic'.tooltipPos.x
              y == ic'.tooltipPos.y
              fitsRight == mouseX + TooltipPreferGap <= roomX
              leftX == mouseX - TooltipPreferGap - ic.tooltipSize.width
          IN  /\ TooltipPadding <= x /\ x <= IMax(TooltipPadding, roomX)
              /\ TooltipPadding <= y /\ y <= IMax(TooltipPadding, roomY)
              /\ fitsRight => x = mouseX + TooltipPreferGap
              /\ (~fitsRight /\ leftX >= TooltipPadding) => x = leftX
              /\ (~fitsRight /\ leftX < TooltipPadding) => x = TooltipPadding
              /\ mouseY + TooltipPreferGap <= roomY => y = mouseY + TooltipPreferGap
      ]_vars

\* a hit whose tooltip did not fit right of the cursor and sits left of it
C21_Witness ==
    /\ g.op = "onPointerMove" /\ ic.hoveredIndex # NullIdx
    /\ ic.tooltipPos.x = g.event.clientX - RectLeft - TooltipPreferGap - ic.tooltipSize.width
    /\ ic.tooltipPos.x > TooltipPadding

----------------------------------------------------------------------------
(* Claims checked under SpecSort.                                          *)

Delivered == pf.fn \in {"toKLineData", "getKlineDataBaoStock"} /\ pf.done /\ ~pf.out.threw

\* the records delivered are in ascending order of timestamp
SortedAscending ==
    Delivered =>
        \A i \in 1..(Len(pf.out.data) - 1) :
            pf.out.data[i].timestamp <= pf.out.data[i + 1].timestamp

\* C22: the records toKLineData and the BaoStock fetch functions return are
\* sorted ascending by timestamp and no two consecutive records share a
\* timestamp.
C22_StrictlyIncreasingTimestamps ==
    /\ SortedAscending
    /\ Delivered =>
          \A i \in 1..(Len(pf.out.data) - 1) :
              pf.out.data[i].timestamp < pf.out.data[i + 1].timestamp

----------------------------------------------------------------------------
(* Claims checked under SpecClear: the cached column positions.            *)

\* the cache the controller holds is the one a frame would produce now
CacheCurrent(s) ==
    LET range == getVisibleRange(s.dom.scrollLeft, RInt(s.chart.viewport.plotWidth),
                                 s.chart.opt.kWidth, s.chart.opt.kGap, Len(s.chart.data))
    IN  /\ s.ic.visibleRange = range
        /\ s.ic.kLinePositions = Arr(calcKLinePositions(s, range))

\* a press or move of the primary pointer took the crosshair x from the cache
SnapsToCache ==
    /\ g'.op \in {"onPointerDown", "onPointerMove"} /\ g'.event.isPrimary
    /\ ic'.crosshairIndex # NullIdx
    /\ ic'.kLinePositions # NullRec /\ ic'.visibleRange # NullRec
    /\ ic'.crosshairIndex >= ic'.visibleRange.start
    /\ ic'.crosshairIndex < ic'.visibleRange.end

\* a scroll event drops the cached positions and their range
ScrollInvalidatesCache ==
    [][g'.op = "onScroll" => ic'.kLinePositions = NullRec /\ ic'.visibleRange = NullRec]_vars

\* C23: a scroll event invalidates the cached column positions, and whenever
\* the hover computation snaps the crosshair to a cached position, the cache
\* is the one of a frame drawn with the current scroll range, column width and
\* gap, and data.
C23_SnapUsesCurrentCache ==
    [][/\ g'.op = "onScroll" => ic'.kLinePositions = NullRec /\ ic'.visibleRange = NullRec
       /\ SnapsToCache => CacheCurrent(State')]_vars

----------------------------------------------------------------------------
(* Claims checked under SpecPane.                                          *)

\* the panes whose half-open band [top, top + height) holds y
BandsHolding(s, y) ==
    {i \in 1..Len(s.chart.paneRenderers) :
        /\ s.chart.paneRenderers[i].top <= y
        /\ y < s.chart.paneRenderers[i].top + s.chart.paneRenderers[i].height}

\* a move that reached the pane selection of updateHoverFromPoint
MoveInPlot ==
    /\ g'.op = "onPointerMove" /\ g'.event.isPrimary
    /\ InPlot(State, g'.event)
    /\ IndexUnder(State, RInt(g'.event.clientX - RectLeft)) >= 0

\* the active pane is one whose closed band [top, top + height] holds the cursor
ActivePaneHoldsCursor ==
    [][MoveInPlot =>
          LET y == g'.event.clientY - RectTop
          IN  \/ /\ ic'.activePaneId = NULL
                 /\ BandsHolding(State, y) = {}
              \/ \E i \in 1..Len(chart.paneRenderers) :
                    /\ ic'.activePaneId = chart.paneRenderers[i].id
                    /\ chart.paneRenderers[i].top <= y
                    /\ y <= chart.paneRenderers[i].top + chart.paneRenderers[i].height]_vars

\* C24: on a move inside the plot rectangle the active pane is the pane whose
\* half-open band [top, top + height) holds the cursor y: at most one pane
\* qualifies, a cursor on the boundary of two adjacent panes selects the lower
\* one, and the active pane is null when no band holds the cursor.
C24_ActivePaneHalfOpenBand ==
    [][MoveInPlot =>
          LET bands == BandsHolding(State, g'.event.clientY - RectTop)
          IN  /\ Cardinality(bands) <= 1
              /\ bands = {} => ic'.activePaneId = NULL
              /\ \A i \in bands : ic'.activePaneId = chart.paneRenderers[i].id]_vars

----------------------------------------------------------------------------
(* Claims checked under SpecInput: the drag.                               *)

\* C25: a press that takes effect records the cursor x and the container's
\* scroll offset as the drag anchor; while Dragging, every move the controller
\* handles writes to the container, once, the anchor's offset plus (anchor x -
\* current cursor x), and leaves the anchor as it is, however many moves came
\* before; the container clamps what is written into its scrollable range.
C25_DragWritesAnchorPlusDelta ==
    [][/\ EffectivePress =>
             /\ ic'.dragStartX = g'.event.clientX
             /\ ic'.scrollStartX = dom.scrollLeft
       /\ DragMove =>
             LET v == RAdd(ic.scrollStartX, RInt(ic.dragStartX - g'.event.clientX))
             IN  /\ g'.scrollWrites = 1
                 /\ g'.written = v
                 /\ dom'.scrollLeft = RMin(RMax(RInt(0), v), maxScrollLeft(State))
                 /\ ic'.dragStartX = ic.dragStartX
                 /\ ic'.scrollStartX = ic.scrollStartX]_vars

\* a move of a drag brought the cursor back to the anchor x, and the offset,
\* which an earlier move of the drag had changed, back to the anchor's offset
C25_Witness ==
    /\ g.op \in {"onPointerMove", "onMouseMove"} /\ g.wasDragging /\ ic.isDragging
    /\ g.written # NullRec /\ g.written = ic.scrollStartX
    /\ g.event.clientX = ic.dragStartX
    /\ dom.scrollLeft = ic.scrollStartX
    /\ scrollPending

----------------------------------------------------------------------------
(* Claims checked under SpecRapid.                                         *)

\* the listener of the last wheel of a sequence at one x has written its offset
SequenceSettled ==
    /\ g.op = "zoomListener" /\ zoomTasks = <<>>
    /\ g.anchor # NullRec /\ g.anchor.origin # NullIdx

\* the offset in effect once every listener has resumed is the last zoom's
\* target, clamped into the container's range
LastTargetInEffect ==
    [][(g'.op = "zoomListener" /\ zoomTasks' = <<>>) =>
          dom'.scrollLeft =
              RMin(RMax(RInt(0), Head(zoomTasks).targetScrollLeft),
                   maxScrollLeft(State'))]_vars

\* C26: with the listener registered, the index that was under the cursor
\* when a sequence of wheel events began is under it (within 1) once the
\* sequence's last target offset is in effect, also when a wheel event arrived
\* before the previous event's target had been applied (checked for sequences
\* whose last target the container takes unclamped).
C26_RapidWheelsKeepAnchor ==
    (SequenceSettled /\ ~g.anchor.clamped) =>
        IAbs(g.anchor.after - g.anchor.origin) <= 1

\* single wheels, each applied before the next arrives, keep the index
SingleWheelKeepsAnchor ==
    (SequenceSettled /\ ~g.anchor.clamped /\ ~g.anchor.chained) =>
        IAbs(g.anchor.after - g.anchor.origin) <= 1

----------------------------------------------------------------------------
(* Claims checked under SpecFetch: the hover indices.                      *)

\* a non-null hovered index is the crosshair index
HoveredIsCrosshair ==
    ic.hoveredIndex # NullIdx => ic.hoveredIndex = ic.crosshairIndex

\* C27: at every moment, right after updateData replaced the data with a
\* shorter or empty array included, a non-null crosshairIndex and a non-null
\* hoveredIndex are indices of the chart's current data, and a non-null
\* hoveredIndex equals crosshairIndex.
C27_HoverIndicesInData ==
    /\ ic.crosshairIndex # NullIdx =>
          0 <= ic.crosshairIndex /\ ic.crosshairIndex < Len(chart.data)
    /\ ic.hoveredIndex # NullIdx =>
          0 <= ic.hoveredIndex /\ ic.hoveredIndex < Len(chart.data)
    /\ HoveredIsCrosshair

----------------------------------------------------------------------------
(* Claims checked under SpecRenderers.                                     *)

\* what the claim says of setPaneRenderers(e.paneId, e.renderers)
RenderersInstalled(e) ==
    LET i == PaneIndex(State, e.paneId)
    IN  IF i = 0
        THEN /\ heap' = heap /\ chart' = chart /\ rafQueue' = rafQueue
             /\ g'.requests = 0
        ELSE /\ heap'[chart.paneRenderers[i].renderers] = heap[e.renderers]
             /\ \A r \in DOMAIN heap :
                    r # chart.paneRenderers[i].renderers => heap'[r] = heap[r]
             /\ g'.requests = 1
             /\ chart'.raf # NoHandle /\ chart'.raf \in rafQueue'

\* the claim for every array but the addressed pane's own
OtherArrayInstalled ==
    [][(/\ g'.op = "setPaneRenderers"
        /\ \A i \in 1..Len(chart.paneRenderers) :
              chart.paneRenderers[i].id = g'.event.paneId =>
                  chart.paneRenderers[i].renderers # g'.event.renderers)
          => RenderersInstalled(g'.event)]_vars

\* C28: after setPaneRenderers(paneId, L) for an existing pane, the pane's
\* list holds exactly the elements L held, in order, for every L, the pane's
\* own current array included; the other panes' lists are unchanged and a
\* frame is scheduled; for an unknown paneId nothing changes and no frame is
\* scheduled.
C28_RenderersInstalled ==
    [][g'.op = "setPaneRenderers" => RenderersInstalled(g'.event)]_vars

----------------------------------------------------------------------------
(* Claims checked under SpecQuiet.                                         *)

Quiescent == rafQueue = {} /\ chart.raf = NoHandle /\ ~scrollPending

\* C29: a frame runs only for a pending handle; draw() requests no frame and
\* writes no scrollLeft, so the frame leaves the handle null and nothing
\* pending; after a finite burst of events and API calls the scheduler becomes
\* quiescent and stays so.
C29_DrawThenQuiescent ==
    /\ [][g'.op = "frame" =>
             /\ rafQueue # {}
             /\ g'.requests = 0 /\ g'.scrollWrites = 0
             /\ dom'.scrollLeft = dom.scrollLeft /\ scrollPending' = scrollPending
             /\ chart'.raf = NoHandle /\ rafQueue' = {}]_vars
    /\ <>[]Quiescent

\* the frame that served the last requests of a full burst has drawn
C29_Witness ==
    /\ g.op = "frame" /\ g.draws = 1
    /\ g.events = MaxBurst
    /\ Quiescent

----------------------------------------------------------------------------
(* Claims checked under SpecInput (continued).                             *)

\* what each mouse handler does when it processes its event
MouseProcessed ==
    /\ (g'.op = "onMouseDown" /\ g'.event.button = 0) =>
            ic'.isDragging /\ g'.requests = 1
    /\ (g'.op = "onMouseMove" /\ ic.isDragging) => g'.scrollWrites = 1
    /\ (g'.op = "onMouseMove" /\ ~ic.isDragging) => g'.requests = 1
    /\ g'.op = "onMouseUp" => ~ic'.isDragging
    /\ g'.op = "onMouseLeave" =>
            ~ic'.isDragging /\ HoverCleared(ic') /\ g'.requests = 1

\* C30 as stated: once the touch pointer has been released by a pointer-up,
\* mouse events are processed again: a mouse event that arrives while no press
\* is held is processed.
C30_MouseProcessedAfterRelease ==
    [][(g'.op \in MouseOps /\ ~ic.isDragging) => MouseProcessed]_vars

\* C30: mouse suppression begins at a primary touch pointer-down and ends at
\* the next primary pointer-leave or primary non-touch pointer-down; a
\* pointer-up releases the drag and leaves the suppression as it was.  While
\* it lasts a mouse event changes nothing; outside it every mouse event is
\* processed.
C30_SuppressionEndsAtLeaveOrMousePress ==
    [][/\ g'.op = "onPointerUp" => ic'.isTouchSession = ic.isTouchSession
       /\ (g'.op = "onPointerUp" /\ g'.event.isPrimary) => ~ic'.isDragging
       /\ (g'.op = "onPointerLeave" /\ g'.event.isPrimary) => ~ic'.isTouchSession
       /\ (g'.op = "onPointerDown" /\ g'.event.isPrimary) =>
              ic'.isTouchSession = (g'.event.pointerType = "touch")
       /\ ic'.isTouchSession # ic.isTouchSession =>
              g'.op \in {"onPointerDown", "onPointerLeave"} /\ g'.event.isPrimary
       /\ (g'.op \in MouseOps /\ ic.isTouchSession) =>
              /\ ic' = ic /\ chart' = chart /\ dom' = dom
              /\ g'.requests = 0 /\ g'.scrollWrites = 0
       /\ (g'.op \in MouseOps /\ ~ic.isTouchSession) => MouseProcessed]_vars

\* a pointer-up released a touch drag and the touch session is still on
C30_Witness ==
    /\ g.op = "onPointerUp" /\ g.event.isPrimary /\ g.event.pointerType = "touch"
    /\ g.wasDragging /\ ~ic.isDragging
    /\ ic.isTouchSession

====
